---- MODULE Spec2Model ----
(***************************************************************************)
(* The in-memory pub/sub broker of pub-sub-system: the topic registry      *)
(* (pubsub.PubSubSystem), the topic operations (pubsub.TopicManager), the  *)
(* subscriber delivery loop (pubsub.SubscriberManager) and the WebSocket   *)
(* session handlers (handlers.WebSocketHandler), as wired by main.go.      *)
(*                                                                         *)
(* Granularity: one step per critical section (a mutex held from Lock to   *)
(* Unlock), per channel operation and per sink call (WriteJSON, Close).    *)
(* Go objects reached through pointers (Topic, Subscriber, Message) are   *)
(* numbered in allocation order; 0 is the nil pointer / absent key.       *)
(***************************************************************************)
EXTENDS Integers, Sequences, FiniteSets, TLC

\* ---- configuration of the broker (environment variables) ------------------
MaxTopics == 2           \* MAX_TOPICS
MaxSubscribers == 2      \* MAX_SUBSCRIBERS_PER_TOPIC
TopicHistorySize == 2    \* TOPIC_HISTORY_SIZE
SubscriberQueueSize == 1 \* SUBSCRIBER_QUEUE_SIZE

\* ---- bounds of the model -------------------------------------------------
NConns == 2          \* WebSocket connections (one session each)
NTopicNames == 1     \* topic names the one-topic scenarios use
NMoreNames == 2      \* further topic names the registry scenario uses
NClientIds == 2      \* client_id values the scenarios use
NMoreClients == 1    \* further client_id values the capacity scenario uses
MaxLastN == 3        \* largest last_n a subscribe request carries

Empty == 0               \* the empty string "" of a request field / nil

Conns == 1..NConns
TopicNames == 1..NTopicNames
AllNames == 1..(NTopicNames + NMoreNames)
ClientIds == 1..NClientIds
AllClients == 1..(NClientIds + NMoreClients)
ReqTopics == {Empty} \cup TopicNames
ReqClients == {Empty} \cup ClientIds
LastNs == (0 - 1)..MaxLastN

VARIABLES
    Topics,     \* ps.Topics: topic name -> Topic object (0: no such key)
    psMu,       \* ps.Mu: TRUE while DeleteTopic holds the write lock
    topic,      \* the Topic objects: sequence of [Name, Subscribers, Messages]
    sub,        \* the Subscriber objects: sequence of [ID, Conn, Topic, Queue, closed]
    proc,       \* delivery loop of each Subscriber: [phase, msg]
    conn,       \* the connections: [closed, stalled, ctxDone, hb]; hb is where
                \* the connection's heartbeat goroutine stands
    sess,       \* the session (reader goroutine) of each connection
    http,       \* the management request in progress (DeleteTopic)
    nMsgs,      \* Message objects allocated so far
    message,    \* the Message objects: sequence of [ID, Payload]
    pubLog,     \* per Message object: the topic, id and payload of the publish
                \* request that created it, the subscribers the topic had when
                \* the request resolved it, whether its ack was written and the
                \* subscribers it had found full by then
    sinkLog,    \* per connection: envelopes written to it, in write order
    appendLog,  \* per Topic object: every message appended to its history
    enqLog,     \* per Subscriber object: every message enqueued on its queue
    subLog,     \* per Subscriber object: the Topic object it was added to, its
                \* last_n, the history its replay read, the messages its replay
                \* passed to WriteJSON, whether a publish found its queue full
    delLog,     \* per Topic object: the subscribers it held when DeleteTopic returned
    panics      \* runtime panics raised so far, in order

vars == <<Topics, psMu, topic, sub, proc, conn, sess, http, nMsgs, message, pubLog,
          sinkLog, appendLog, enqLog, subLog, delLog, panics>>

\* ---- pure helpers ----------------------------------------------------------

\* the values of a map with client_id keys (0 marks an absent key)
Range(m) == {m[k] : k \in DOMAIN m} \ {0}

\* len(m) of such a map
MapLen(m) == Cardinality({k \in DOMAIN m : m[k] # 0})

NoSubscribers == [k \in AllClients |-> 0]

\* AddMessage dropping the oldest entry one message late (>= for >)
AddMessage_TrimLate(msgs, msg) ==
    LET appended == Append(msgs, msg)
    IN  IF Len(appended) > TopicHistorySize + 1 THEN Tail(appended) ELSE appended

\* TopicManager.AddMessage, the history after appending msg:
\*   topic.Messages = append(topic.Messages, msg)
\*   if len(topic.Messages) > maxMessages { topic.Messages = topic.Messages[1:] }
AddMessage(msgs, msg) ==
    LET appended == Append(msgs, msg)
    IN  IF Len(appended) > TopicHistorySize THEN Tail(appended) ELSE appended

\* GetLastMessages copying from the front of the history
GetLastMessages_Oldest(msgs, n) ==
    LET k == IF n <= 0 \/ n > Len(msgs) THEN Len(msgs) ELSE n
    IN  SubSeq(msgs, 1, k)

\* TopicManager.GetLastMessages:
\*   if n <= 0 || n > len(topic.Messages) { n = len(topic.Messages) }
\*   copy(result, topic.Messages[len(topic.Messages)-n:])
GetLastMessages(msgs, n) ==
    LET k == IF n <= 0 \/ n > Len(msgs) THEN Len(msgs) ELSE n
    IN  SubSeq(msgs, Len(msgs) - k + 1, Len(msgs))

\* ---- requests and messages (models.ClientMessage, models.Message) ------------

\* a JSON integer literal of a payload, as two limbs: hi * 2^27 + lo, below 2^54
Limb == 134217728

\* the admitted ids: a client's canonical UUID string, and what uuid.New() gives
ClientUUID == "11111111-1111-1111-1111-111111111111"
NewUUID == "uuid.New()"

\* uuid.Parse(id) returns no error
ParseUUID(id) == id \in {ClientUUID, NewUUID}

\* the float64 nearest to the integer n (ties to the even mantissa): every
\* integer below 2^53 is a float64, from 2^53 to 2^54 only the even ones are
Float64(n) ==
    IF n.hi < Limb \div 2 \/ n.lo % 2 = 0 THEN n
    ELSE IF n.lo % 4 = 1 THEN [n EXCEPT !.lo = @ - 1]
    ELSE IF n.lo + 1 = Limb THEN [hi |-> n.hi + 1, lo |-> 0]
    ELSE [n EXCEPT !.lo = @ + 1]

\* conn.ReadJSON into Payload interface{}: a JSON number becomes a float64
DecodeJSON(p) == Float64(p)

\* conn.WriteJSON of a float64 payload: the shortest decimal that reads back
\* as the same float64, which for an integer below 2^54 is its digits
EncodeJSON(x) == [hi |-> x.hi, lo |-> x.lo]

\* msg.Message of a request: nil, or a Message with a (possibly empty) id
Nil == [nil |-> TRUE, ID |-> "", Payload |-> [hi |-> 0, lo |-> 0]]
Message(id, payload) == [nil |-> FALSE, ID |-> id, Payload |-> payload]

\* a decoded request; absent fields are their zero values
ClientMessage(name, cid, n, rid, m) ==
    [Topic |-> name, ClientID |-> cid, LastN |-> n, RequestID |-> rid, Message |-> m]

\* an envelope that leaves out the request_id
Envelope_NoRequestId(code, rid) == [code |-> code, rid |-> 0]

\* a response envelope (ack, or sendError's error) with its request_id
Envelope(code, rid) == [code |-> code, rid |-> rid]

\* ---- the transport sink (models.WebSocketConn) ------------------------------

\* a WriteJSON on connection c does not return while the peer accepts no bytes
\* (no write deadline is ever set); Close makes it return with an error
WriteBlocked(c) == conn[c].stalled /\ ~conn[c].closed

\* sinkLog after WriteJSON(env) on connection c: an error, and nothing sent,
\* once the connection is closed
WriteJSON(log, c, env) ==
    IF conn[c].closed THEN log ELSE [log EXCEPT ![c] = Append(@, env)]

\* conn after Close() on connection c
Close(cs, c) == [cs EXCEPT ![c].closed = TRUE]

\* the event envelope of message m for subscriber s: Topic is sub.Topic in the
\* delivery loop and msg.Topic, the name NewSubscriber was given, in the replay
EventMsg(s, m, live) ==
    [type |-> "event", sub |-> s, msg |-> m, live |-> live, Topic |-> sub[s].Topic,
     ID |-> message[m].ID, Payload |-> EncodeJSON(message[m].Payload)]
AckMsg(s) == [type |-> "ack", sub |-> s, msg |-> 0, live |-> FALSE]
SlowConsumerMsg(s) == [type |-> "SLOW_CONSUMER", sub |-> s, msg |-> 0, live |-> FALSE]
InfoMsg == [type |-> "info", sub |-> 0, msg |-> 0, live |-> FALSE]

\* ---- sessions ---------------------------------------------------------------

\* a session between two requests; r is the last response it wrote. Of a
\* publish in progress, seen is the snapshot Broadcast took, snap the part of
\* it still to send to, full the part found with a full queue
Reading(r) ==
    [pc |-> "read", name |-> 0, cid |-> 0, lastN |-> 0, topic |-> 0, msg |-> 0,
     snap |-> {}, seen |-> {}, full |-> {}, cur |-> 0, sub |-> 0, replay |-> <<>>,
     rid |-> 0, resp |-> r]

\* the response a session has after writing r on its own connection
Respond(c, r) == IF conn[c].closed THEN sess[c].resp ELSE r

\* HandleWebSocket returning (read error) or unwinding (panic):
\* the deferred cancel() and conn.Close()
Unwind(cs, c) == [cs EXCEPT ![c].closed = TRUE, ![c].ctxDone = TRUE]

\* ---- PubSubSystem.GetHealth and GetStats: what they count ---------------------

\* an entry with the two counts exchanged
TopicStats_Swapped(messages, subscribers) ==
    [present |-> TRUE, messages |-> subscribers, subscribers |-> messages]

\* the entry GetStats makes for one topic
TopicStats(messages, subscribers) ==
    [present |-> TRUE, messages |-> messages, subscribers |-> subscribers]

\* no entry under a name
NoStats == [present |-> FALSE, messages |-> 0, subscribers |-> 0]

\* the counts of a call that has visited no topic yet (and the result slot of
\* the management client before any call)
NoCounts == [topics |-> 0, subscribers |-> 0, stats |-> [n \in AllNames |-> NoStats]]

RECURSIVE Sum(_, _)
\* the sum of f over the set S
Sum(f, S) == IF S = {} THEN 0
             ELSE LET x == CHOOSE y \in S : TRUE IN f[x] + Sum(f, S \ {x})

\* the sum of len(topic.Subscribers) over the registry, the topics being tp
TotalSubscribers(tp) ==
    LET names == {n \in AllNames : Topics[n] # 0}
    IN  Sum([n \in names |-> MapLen(tp[Topics[n]].Subscribers)], names)

\* the management request in progress after the topics have become tp: while
\* GetHealth runs, seen collects every total the subscribers maps go through
Observe(tp) ==
    IF http.pc = "health" THEN [http EXCEPT !.seen = @ \cup {TotalSubscribers(tp)}]
    ELSE http

Init ==
    /\ Topics = [n \in AllNames |-> 0]
    /\ psMu = FALSE
    /\ topic = <<>>
    /\ sub = <<>>
    /\ proc = <<>>
    /\ conn = [c \in Conns |-> [closed |-> FALSE, stalled |-> FALSE, ctxDone |-> FALSE,
                                hb |-> "select"]]
    /\ sess = [c \in Conns |-> Reading(Envelope("none", Empty))]
    /\ http = [pc |-> "idle", name |-> 0, topic |-> 0, start |-> {}, visited |-> {},
               resp |-> "none",
                acc |-> NoCounts, seen |-> {}, out |-> NoCounts]
    /\ nMsgs = 0
    /\ message = <<>>
    /\ pubLog = <<>>
    /\ sinkLog = [c \in Conns |-> <<>>]
    /\ appendLog = <<>>
    /\ enqLog = <<>>
    /\ subLog = <<>>
    /\ delLog = <<>>
    /\ panics = <<>>

topicVars == <<Topics, psMu, topic, http, appendLog, delLog>>
msgVars == <<nMsgs, message, pubLog>>
subVars == <<sub, proc, enqLog, subLog>>

\* ---- PubSubSystem.NewTopic ---------------------------------------------------

\* NewTopic refusing only above MAX_TOPICS (> for >=)
NewTopic_OffByOne(name) ==
    /\ http.pc = "idle"
    /\ ~psMu
    /\ IF MapLen(Topics) > MaxTopics
       THEN /\ http' = [http EXCEPT !.resp = "maximum topics reached"]
            /\ UNCHANGED <<Topics, topic, appendLog, delLog>>
       ELSE IF Topics[name] # 0
       THEN /\ http' = [http EXCEPT !.resp = "topic already exists"]
            /\ UNCHANGED <<Topics, topic, appendLog, delLog>>
       ELSE /\ topic' = Append(topic, [Name |-> name, Subscribers |-> NoSubscribers,
                                       Messages |-> <<>>])
            /\ appendLog' = Append(appendLog, <<>>)
            /\ delLog' = Append(delLog, [done |-> FALSE, subs |-> {}])
            /\ Topics' = [Topics EXCEPT ![name] = Len(topic) + 1]
            /\ http' = [http EXCEPT !.resp = "created"]
    /\ UNCHANGED <<psMu, subVars, conn, sess, msgVars, sinkLog, panics>>

\* if len(ps.Topics) >= ps.MaxTopics: error; if exists: error; else install
NewTopic(name) ==
    /\ http.pc = "idle"
    /\ ~psMu
    /\ IF MapLen(Topics) >= MaxTopics
       THEN /\ http' = [http EXCEPT !.resp = "maximum topics reached"]
            /\ UNCHANGED <<Topics, topic, appendLog, delLog>>
       ELSE IF Topics[name] # 0
       THEN /\ http' = [http EXCEPT !.resp = "topic already exists"]
            /\ UNCHANGED <<Topics, topic, appendLog, delLog>>
       ELSE /\ topic' = Append(topic, [Name |-> name, Subscribers |-> NoSubscribers,
                                       Messages |-> <<>>])
            /\ appendLog' = Append(appendLog, <<>>)
            /\ delLog' = Append(delLog, [done |-> FALSE, subs |-> {}])
            /\ Topics' = [Topics EXCEPT ![name] = Len(topic) + 1]
            /\ http' = [http EXCEPT !.resp = "created"]
    /\ UNCHANGED <<psMu, subVars, conn, sess, msgVars, sinkLog, panics>>

\* ---- WebSocketHandler.handlePublish ------------------------------------------

\* the request is read (ReadJSON), validated, given an id when it has none,
\* and its topic looked up (GetTopic)
handlePublish(c, msg) ==
    /\ sess[c].pc = "read"
    /\ ~conn[c].closed
    /\ ~psMu
    /\ IF msg.Topic = Empty \/ msg.Message.nil
       THEN /\ ~WriteBlocked(c)
            /\ sess' = [sess EXCEPT ![c] =
                           Reading(Respond(c, Envelope("BAD_REQUEST", msg.RequestID)))]
            /\ UNCHANGED msgVars
       ELSE IF msg.Message.ID # "" /\ ~ParseUUID(msg.Message.ID)
       THEN /\ ~WriteBlocked(c)
            /\ sess' = [sess EXCEPT ![c] =
                           Reading(Respond(c, Envelope("BAD_REQUEST", msg.RequestID)))]
            /\ UNCHANGED msgVars
       ELSE IF Topics[msg.Topic] = 0
       THEN /\ ~WriteBlocked(c)
            /\ sess' = [sess EXCEPT ![c] =
                           Reading(Respond(c, Envelope("TOPIC_NOT_FOUND", msg.RequestID)))]
            /\ UNCHANGED msgVars
       ELSE /\ nMsgs' = nMsgs + 1
            /\ message' = Append(message,
                   [ID |-> IF msg.Message.ID = "" THEN NewUUID ELSE msg.Message.ID,
                    Payload |-> DecodeJSON(msg.Message.Payload)])
            /\ pubLog' = Append(pubLog,
                   [topic |-> Topics[msg.Topic], ID |-> msg.Message.ID,
                    Payload |-> msg.Message.Payload,
                    before |-> Range(topic[Topics[msg.Topic]].Subscribers),
                    full |-> {}, acked |-> FALSE])
            /\ sess' = [sess EXCEPT ![c].pc = "pubAdd", ![c].name = msg.Topic,
                                    ![c].topic = Topics[msg.Topic],
                                    ![c].msg = nMsgs + 1, ![c].rid = msg.RequestID]
    /\ UNCHANGED <<topicVars, subVars, conn, sinkLog, panics>>

\* h.topicManager.AddMessage(topic, msg.Message)
PublishAdd(c) ==
    /\ sess[c].pc = "pubAdd"
    /\ LET t == sess[c].topic
           m == sess[c].msg
       IN  /\ topic' = [topic EXCEPT ![t].Messages = AddMessage(@, m)]
           /\ appendLog' = [appendLog EXCEPT ![t] = Append(@, m)]
    /\ sess' = [sess EXCEPT ![c].pc = "pubSnap"]
    /\ UNCHANGED <<Topics, psMu, http, delLog, subVars, conn, msgVars, sinkLog, panics>>

\* Broadcast copying the subscribers of every topic
BroadcastSnapshot_AllTopics(c) ==
    /\ sess[c].pc = "pubSnap"
    /\ LET subscribers == UNION {Range(topic[t].Subscribers) : t \in 1..Len(topic)}
       IN  sess' = [sess EXCEPT ![c].snap = subscribers, ![c].seen = subscribers,
                                ![c].pc = IF subscribers = {} THEN "pubAck" ELSE "pubSend"]
    /\ UNCHANGED <<topicVars, subVars, conn, msgVars, sinkLog, panics>>

\* Broadcast doing its try-sends while it still holds topic.Mu.RLock
BroadcastSnapshot_SendsLocked(c) ==
    /\ sess[c].pc = "pubSnap"
    /\ LET subscribers == Range(topic[sess[c].topic].Subscribers)
           ready == {s \in subscribers :
                        ~sub[s].closed /\ Len(sub[s].Queue) < SubscriberQueueSize}
       IN  /\ sub' = [s \in 1..Len(sub) |->
                        IF s \in ready THEN [sub[s] EXCEPT !.Queue = Append(@, sess[c].msg)]
                        ELSE sub[s]]
           /\ enqLog' = [s \in 1..Len(sub) |->
                           IF s \in ready THEN Append(enqLog[s], sess[c].msg)
                           ELSE enqLog[s]]
           /\ sess' = [sess EXCEPT ![c].snap = subscribers \ ready,
                                   ![c].seen = subscribers,
                                   ![c].pc = IF subscribers \ ready = {}
                                             THEN "pubAck" ELSE "pubSend"]
    /\ UNCHANGED <<topicVars, proc, subLog, conn, msgVars, sinkLog, panics>>

\* Broadcast, first half: the subscribers are copied under topic.Mu.RLock
BroadcastSnapshot(c) ==
    /\ sess[c].pc = "pubSnap"
    /\ LET subscribers == Range(topic[sess[c].topic].Subscribers)
       IN  sess' = [sess EXCEPT ![c].snap = subscribers, ![c].seen = subscribers,
                                ![c].pc = IF subscribers = {} THEN "pubAck" ELSE "pubSend"]
    /\ UNCHANGED <<topicVars, subVars, conn, msgVars, sinkLog, panics>>

\* the fan-out loop ending after its first subscriber
AfterSub_SkipRest(c, s) ==
    [sess EXCEPT ![c].snap = {}, ![c].cur = 0, ![c].pc = "pubAck"]

\* where the fan-out loop goes once s has been dealt with
AfterSub(c, s) ==
    [sess EXCEPT ![c].snap = @ \ {s}, ![c].cur = 0,
                 ![c].pc = IF sess[c].snap \ {s} = {} THEN "pubAck" ELSE "pubSend"]

\* Broadcast, the select on one snapshotted subscriber (the slice is in map
\* iteration order, which is unspecified):  case sub.Queue <- msg:  /  default:
BroadcastSend(c) ==
    /\ sess[c].pc = "pubSend"
    /\ \E s \in sess[c].snap :
         IF sub[s].closed
         THEN \* send on closed channel: the handler goroutine panics
              /\ panics' = Append(panics, [what |-> "send on closed channel",
                                           conn |-> c, sub |-> s])
              /\ conn' = Unwind(conn, c)
              /\ sess' = [sess EXCEPT ![c] = [Reading(@.resp) EXCEPT !.pc = "closed"]]
              /\ UNCHANGED <<sub, enqLog, subLog>>
         ELSE IF Len(sub[s].Queue) < SubscriberQueueSize
         THEN /\ sub' = [sub EXCEPT ![s].Queue = Append(@, sess[c].msg)]
              /\ enqLog' = [enqLog EXCEPT ![s] = Append(@, sess[c].msg)]
              /\ sess' = AfterSub(c, s)
              /\ UNCHANGED <<conn, panics, subLog>>
         ELSE /\ sess' = [sess EXCEPT ![c].cur = s, ![c].full = @ \cup {s},
                                      ![c].pc = "pubSlowWrite"]
              /\ subLog' = [subLog EXCEPT ![s].evicted = TRUE]
              /\ UNCHANGED <<sub, enqLog, conn, panics>>
    /\ UNCHANGED <<topicVars, proc, msgVars, sinkLog>>

\* Broadcast, default branch: sub.Conn.WriteJSON(errorMsg)
BroadcastSlowWrite(c) ==
    /\ sess[c].pc = "pubSlowWrite"
    /\ LET s == sess[c].cur
       IN  /\ ~WriteBlocked(sub[s].Conn)
           /\ sinkLog' = WriteJSON(sinkLog, sub[s].Conn, SlowConsumerMsg(s))
    /\ sess' = [sess EXCEPT ![c].pc = "pubSlowClose"]
    /\ UNCHANGED <<topicVars, subVars, conn, msgVars, panics>>

\* Broadcast, default branch: sub.Conn.Close()
BroadcastSlowClose(c) ==
    /\ sess[c].pc = "pubSlowClose"
    /\ conn' = Close(conn, sub[sess[c].cur].Conn)
    /\ sess' = AfterSub(c, sess[c].cur)
    /\ UNCHANGED <<topicVars, subVars, msgVars, sinkLog, panics>>

\* handlePublish, the acknowledgment: conn.WriteJSON(ack)
PublishAck(c) ==
    /\ sess[c].pc = "pubAck"
    /\ ~WriteBlocked(c)
    /\ sess' = [sess EXCEPT ![c] = Reading(Respond(c, Envelope("ack", sess[c].rid)))]
    /\ pubLog' = [pubLog EXCEPT ![sess[c].msg].acked = TRUE,
                                ![sess[c].msg].full = sess[c].full]
    /\ UNCHANGED <<topicVars, subVars, conn, nMsgs, message, sinkLog, panics>>

\* ---- WebSocketHandler.handleSubscribe ---------------------------------------

\* the request is read, validated and its topic looked up (GetTopic)
handleSubscribe(c, msg) ==
    /\ sess[c].pc = "read"
    /\ ~conn[c].closed
    /\ ~psMu
    /\ IF msg.Topic = Empty \/ msg.ClientID = Empty
       THEN /\ ~WriteBlocked(c)
            /\ sess' = [sess EXCEPT ![c] =
                           Reading(Respond(c, Envelope("BAD_REQUEST", msg.RequestID)))]
       ELSE IF Topics[msg.Topic] = 0
       THEN /\ ~WriteBlocked(c)
            /\ sess' = [sess EXCEPT ![c] =
                           Reading(Respond(c, Envelope("TOPIC_NOT_FOUND", msg.RequestID)))]
       ELSE sess' = [sess EXCEPT ![c].pc = "subAdd", ![c].name = msg.Topic,
                                 ![c].cid = msg.ClientID, ![c].lastN = msg.LastN,
                                 ![c].topic = Topics[msg.Topic],
                                 ![c].rid = msg.RequestID]
    /\ UNCHANGED <<topicVars, subVars, conn, msgVars, sinkLog, panics>>

\* SubscriberManager.NewSubscriber
NewSubscriber(id, name, c) ==
    [ID |-> id, Conn |-> c, Topic |-> name, Queue |-> <<>>, closed |-> FALSE]

\* TopicManager.AddSubscriber, the subscribers map after the insert
AddSubscriber(subscribers, id, s) == [subscribers EXCEPT ![id] = s]

\* a subscribe that lets one subscriber too many in
SubscribeAdd_OffByOne(c) ==
    /\ sess[c].pc = "subAdd"
    /\ LET t == sess[c].topic
           s == Len(sub) + 1
       IN  IF MapLen(topic[t].Subscribers) > MaxSubscribers
           THEN /\ ~WriteBlocked(c)
                /\ sess' = [sess EXCEPT ![c] =
                               Reading(Respond(c, Envelope("INTERNAL", sess[c].rid)))]
                /\ UNCHANGED <<topic, sub, proc, enqLog, subLog>>
           ELSE /\ sub' = Append(sub, NewSubscriber(sess[c].cid, sess[c].name, c))
                /\ topic' = [topic EXCEPT
                               ![t].Subscribers = AddSubscriber(@, sess[c].cid, s)]
                /\ proc' = Append(proc, [phase |-> "select", msg |-> 0])
                /\ enqLog' = Append(enqLog, <<>>)
                /\ subLog' = Append(subLog, [topic |-> t, lastN |-> sess[c].lastN,
                                             got |-> FALSE, hist |-> <<>>,
                                             sent |-> <<>>, done |-> FALSE,
                                             evicted |-> FALSE])
                /\ sess' = [sess EXCEPT ![c].sub = s, ![c].pc = "subAck"]
    /\ http' = Observe(topic')
    /\ UNCHANGED <<Topics, psMu, appendLog, delLog, conn, msgVars, sinkLog, panics>>

\* NewSubscriber, AddSubscriber (one critical section of topic.Mu) and, when it
\* succeeds, StartMessageProcessor; sendError(INTERNAL) when it fails
SubscribeAdd(c) ==
    /\ sess[c].pc = "subAdd"
    /\ LET t == sess[c].topic
           s == Len(sub) + 1
       IN  IF MapLen(topic[t].Subscribers) >= MaxSubscribers
           THEN /\ ~WriteBlocked(c)
                /\ sess' = [sess EXCEPT ![c] =
                               Reading(Respond(c, Envelope("INTERNAL", sess[c].rid)))]
                /\ UNCHANGED <<topic, sub, proc, enqLog, subLog>>
           ELSE /\ sub' = Append(sub, NewSubscriber(sess[c].cid, sess[c].name, c))
                /\ topic' = [topic EXCEPT
                               ![t].Subscribers = AddSubscriber(@, sess[c].cid, s)]
                /\ proc' = Append(proc, [phase |-> "select", msg |-> 0])
                /\ enqLog' = Append(enqLog, <<>>)
                /\ subLog' = Append(subLog, [topic |-> t, lastN |-> sess[c].lastN,
                                             got |-> FALSE, hist |-> <<>>,
                                             sent |-> <<>>, done |-> FALSE,
                                             evicted |-> FALSE])
                /\ sess' = [sess EXCEPT ![c].sub = s, ![c].pc = "subAck"]
    /\ http' = Observe(topic')
    /\ UNCHANGED <<Topics, psMu, appendLog, delLog, conn, msgVars, sinkLog, panics>>

\* the end of handleSubscribe
SubscribeDone(c) ==
    [subLog EXCEPT ![sess[c].sub].done = TRUE]

\* handleSubscribe, the acknowledgment: conn.WriteJSON(ack)
SubscribeAck(c) ==
    /\ sess[c].pc = "subAck"
    /\ ~WriteBlocked(c)
    /\ sinkLog' = WriteJSON(sinkLog, c, AckMsg(sess[c].sub))
    /\ IF sess[c].lastN > 0
       THEN /\ sess' = [sess EXCEPT ![c].pc = "subGet",
                                    ![c].resp = Respond(c, Envelope("ack", sess[c].rid))]
            /\ UNCHANGED subLog
       ELSE /\ sess' = [sess EXCEPT ![c] = Reading(Respond(c, Envelope("ack", sess[c].rid)))]
            /\ subLog' = SubscribeDone(c)
    /\ UNCHANGED <<topicVars, sub, proc, enqLog, conn, msgVars, panics>>

\* handleSubscribe, if msg.LastN > 0: GetLastMessages(topic, msg.LastN)
SubscribeGet(c) ==
    /\ sess[c].pc = "subGet"
    /\ LET msgs == topic[sess[c].topic].Messages
           historicalMessages == GetLastMessages(msgs, sess[c].lastN)
       IN  /\ IF historicalMessages = <<>>
              THEN /\ sess' = [sess EXCEPT ![c] = Reading(@.resp)]
                   /\ subLog' = [subLog EXCEPT ![sess[c].sub] =
                                      [@ EXCEPT !.got = TRUE, !.hist = msgs, !.done = TRUE]]
              ELSE /\ sess' = [sess EXCEPT ![c].replay = historicalMessages,
                                           ![c].pc = "subReplay"]
                   /\ subLog' = [subLog EXCEPT ![sess[c].sub] =
                                      [@ EXCEPT !.got = TRUE, !.hist = msgs]]
    /\ UNCHANGED <<topicVars, sub, proc, enqLog, conn, msgVars, sinkLog, panics>>

\* handleSubscribe, the loop body: conn.WriteJSON(eventMsg) for one histMsg
SubscribeReplay(c) ==
    /\ sess[c].pc = "subReplay"
    /\ ~WriteBlocked(c)
    /\ sinkLog' = WriteJSON(sinkLog, c, EventMsg(sess[c].sub, Head(sess[c].replay), FALSE))
    /\ IF Tail(sess[c].replay) = <<>>
       THEN sess' = [sess EXCEPT ![c] = Reading(@.resp)]
       ELSE sess' = [sess EXCEPT ![c].replay = Tail(@)]
    /\ subLog' = [subLog EXCEPT ![sess[c].sub] =
                       [@ EXCEPT !.sent = Append(@, Head(sess[c].replay)),
                                 !.done = Tail(sess[c].replay) = <<>>]]
    /\ UNCHANGED <<topicVars, sub, proc, enqLog, conn, msgVars, panics>>

\* ---- WebSocketHandler.handleUnsubscribe -------------------------------------

\* the request is read, validated and its topic looked up (GetTopic)
handleUnsubscribe(c, msg) ==
    /\ sess[c].pc = "read"
    /\ ~conn[c].closed
    /\ ~psMu
    /\ IF msg.Topic = Empty \/ msg.ClientID = Empty
       THEN /\ ~WriteBlocked(c)
            /\ sess' = [sess EXCEPT ![c] =
                           Reading(Respond(c, Envelope("BAD_REQUEST", msg.RequestID)))]
       ELSE IF Topics[msg.Topic] = 0
       THEN /\ ~WriteBlocked(c)
            /\ sess' = [sess EXCEPT ![c] =
                           Reading(Respond(c, Envelope("TOPIC_NOT_FOUND", msg.RequestID)))]
       ELSE sess' = [sess EXCEPT ![c].pc = "unsubRemove", ![c].name = msg.Topic,
                                 ![c].cid = msg.ClientID, ![c].topic = Topics[msg.Topic],
                                 ![c].rid = msg.RequestID]
    /\ UNCHANGED <<topicVars, subVars, conn, msgVars, sinkLog, panics>>

\* RemoveSubscriber closing the queue without the exists test
RemoveSubscriber_Unchecked(c) ==
    /\ sess[c].pc = "unsubRemove"
    /\ LET t == sess[c].topic
           s == topic[t].Subscribers[sess[c].cid]
       IN  IF s = 0 \/ sub[s].closed
           THEN /\ panics' = Append(panics, [what |-> "close of nil or closed channel",
                                             conn |-> c, sub |-> s])
                /\ conn' = Unwind(conn, c)
                /\ sess' = [sess EXCEPT ![c] = [Reading(@.resp) EXCEPT !.pc = "closed"]]
                /\ UNCHANGED <<topic, sub>>
           ELSE /\ sub' = [sub EXCEPT ![s].closed = TRUE]
                /\ topic' = [topic EXCEPT ![t].Subscribers[sess[c].cid] = 0]
                /\ sess' = [sess EXCEPT ![c].pc = "unsubAck", ![c].sub = s]
                /\ UNCHANGED <<conn, panics>>
    /\ http' = Observe(topic')
    /\ UNCHANGED <<Topics, psMu, appendLog, delLog, proc, enqLog, subLog,
                   msgVars, sinkLog>>

\* RemoveSubscriber closing the queue and leaving the entry in the map
RemoveSubscriber_KeepsEntry(c) ==
    /\ sess[c].pc = "unsubRemove"
    /\ LET t == sess[c].topic
           s == topic[t].Subscribers[sess[c].cid]
       IN  IF s = 0
           THEN /\ sess' = [sess EXCEPT ![c].pc = "unsubAck"]
                /\ UNCHANGED <<sub, conn, panics>>
           ELSE IF sub[s].closed
           THEN /\ panics' = Append(panics, [what |-> "close of closed channel",
                                             conn |-> c, sub |-> s])
                /\ conn' = Unwind(conn, c)
                /\ sess' = [sess EXCEPT ![c] = [Reading(@.resp) EXCEPT !.pc = "closed"]]
                /\ UNCHANGED sub
           ELSE /\ sub' = [sub EXCEPT ![s].closed = TRUE]
                /\ sess' = [sess EXCEPT ![c].pc = "unsubAck", ![c].sub = s]
                /\ UNCHANGED <<conn, panics>>
    /\ UNCHANGED <<topicVars, proc, enqLog, subLog, msgVars, sinkLog>>

\* TopicManager.RemoveSubscriber (one critical section of topic.Mu):
\*   if sub, exists := topic.Subscribers[subID]; exists {
\*       close(sub.Queue); delete(topic.Subscribers, subID) }
RemoveSubscriber(c) ==
    /\ sess[c].pc = "unsubRemove"
    /\ LET t == sess[c].topic
           s == topic[t].Subscribers[sess[c].cid]
       IN  IF s = 0
           THEN /\ sess' = [sess EXCEPT ![c].pc = "unsubAck"]
                /\ UNCHANGED <<topic, sub, conn, panics>>
           ELSE IF sub[s].closed
           THEN \* close of closed channel: the handler goroutine panics
                /\ panics' = Append(panics, [what |-> "close of closed channel",
                                             conn |-> c, sub |-> s])
                /\ conn' = Unwind(conn, c)
                /\ sess' = [sess EXCEPT ![c] = [Reading(@.resp) EXCEPT !.pc = "closed"]]
                /\ UNCHANGED <<topic, sub>>
           ELSE /\ sub' = [sub EXCEPT ![s].closed = TRUE]
                /\ topic' = [topic EXCEPT ![t].Subscribers[sess[c].cid] = 0]
                /\ sess' = [sess EXCEPT ![c].pc = "unsubAck", ![c].sub = s]
                /\ UNCHANGED <<conn, panics>>
    /\ http' = Observe(topic')
    /\ UNCHANGED <<Topics, psMu, appendLog, delLog, proc, enqLog, subLog,
                   msgVars, sinkLog>>

\* handleUnsubscribe, the acknowledgment: conn.WriteJSON(ack)
UnsubscribeAck(c) ==
    /\ sess[c].pc = "unsubAck"
    /\ ~WriteBlocked(c)
    /\ sess' = [sess EXCEPT ![c] = Reading(Respond(c, Envelope("ack", sess[c].rid)))]
    /\ UNCHANGED <<topicVars, subVars, conn, msgVars, sinkLog, panics>>

\* ---- SubscriberManager.StartMessageProcessor: the delivery loop ---------------

\* the delivery loop taking a message off the queue and forgetting it
ProcReceive_Drop(s) ==
    /\ proc[s].phase = "select"
    /\ sub[s].Queue # <<>>
    /\ sub' = [sub EXCEPT ![s].Queue = Tail(@)]
    /\ UNCHANGED <<topicVars, proc, enqLog, subLog, conn, sess, msgVars, sinkLog, panics>>

\* select, case msg := <-sub.Queue with a message buffered
ProcReceive(s) ==
    /\ proc[s].phase = "select"
    /\ sub[s].Queue # <<>>
    /\ proc' = [proc EXCEPT ![s] = [phase |-> "write", msg |-> Head(sub[s].Queue)]]
    /\ sub' = [sub EXCEPT ![s].Queue = Tail(@)]
    /\ UNCHANGED <<topicVars, enqLog, subLog, conn, sess, msgVars, sinkLog, panics>>

\* the delivery loop without its case <-ctx.Done()
ProcReturn_IgnoresContext(s) ==
    /\ proc[s].phase = "select"
    /\ sub[s].Queue = <<>> /\ sub[s].closed
    /\ proc' = [proc EXCEPT ![s] = [phase |-> "exited", msg |-> 0]]
    /\ conn' = Close(conn, sub[s].Conn)
    /\ UNCHANGED <<topicVars, sub, enqLog, subLog, sess, msgVars, sinkLog, panics>>

\* select, case msg := <-sub.Queue yields nil (queue closed and drained), or
\* case <-ctx.Done(): return, and the deferred sub.Conn.Close()
ProcReturn(s) ==
    /\ proc[s].phase = "select"
    /\ \/ sub[s].Queue = <<>> /\ sub[s].closed
       \/ conn[sub[s].Conn].ctxDone
    /\ proc' = [proc EXCEPT ![s] = [phase |-> "exited", msg |-> 0]]
    /\ conn' = Close(conn, sub[s].Conn)
    /\ UNCHANGED <<topicVars, sub, enqLog, subLog, sess, msgVars, sinkLog, panics>>

\* sub.Conn.WriteJSON(serverMsg); on error: return, and the deferred Close()
ProcWrite(s) ==
    /\ proc[s].phase = "write"
    /\ ~WriteBlocked(sub[s].Conn)
    /\ sinkLog' = WriteJSON(sinkLog, sub[s].Conn, EventMsg(s, proc[s].msg, TRUE))
    /\ proc' = [proc EXCEPT ![s] = [phase |-> IF conn[sub[s].Conn].closed
                                               THEN "exited" ELSE "select",
                                    msg |-> 0]]
    /\ UNCHANGED <<topicVars, sub, enqLog, subLog, conn, sess, msgVars, panics>>

\* the delivery loop of the single-file server (its handlers, AddSubscriber,
\* RemoveSubscriber and loop body are those above), the rest of its deferred
\* function after s.Conn.Close():
\*   if topic, exists := pubSub.Topics[s.Topic]; exists {
\*       topic.RemoveSubscriber(s.ID) }
\* the registry is read by name, without pubSub.mu, and the entry is found by
\* client_id
ProcRemove(s) ==
    /\ proc[s].phase = "exited"
    /\ LET t == Topics[sub[s].Topic]
           r == IF t = 0 THEN 0 ELSE topic[t].Subscribers[sub[s].ID]
       IN  IF r = 0
           THEN UNCHANGED <<topic, sub, panics>>
           ELSE IF sub[r].closed
           THEN \* close of closed channel, in a goroutine nothing recovers
                /\ panics' = Append(panics, [what |-> "close of closed channel",
                                             conn |-> 0, sub |-> r])
                /\ UNCHANGED <<topic, sub>>
           ELSE /\ sub' = [sub EXCEPT ![r].closed = TRUE]
                /\ topic' = [topic EXCEPT ![t].Subscribers[sub[s].ID] = 0]
                /\ UNCHANGED panics
    /\ proc' = [proc EXCEPT ![s] = [phase |-> "gone", msg |-> 0]]
    /\ http' = Observe(topic')
    /\ UNCHANGED <<Topics, psMu, appendLog, delLog, enqLog, subLog, conn, sess,
                   msgVars, sinkLog>>

\* ---- the connection's peer and the end of the session --------------------------

\* conn.ReadJSON fails (the connection was closed, or the client went away):
\* processMessages breaks and HandleWebSocket returns
SessionEnd(c) ==
    /\ sess[c].pc = "read"
    /\ sess' = [sess EXCEPT ![c].pc = "closed"]
    /\ conn' = Unwind(conn, c)
    /\ UNCHANGED <<topicVars, subVars, msgVars, sinkLog, panics>>

\* the client stops reading from its socket: writes to it no longer return
Stall(c) ==
    /\ ~conn[c].closed
    /\ ~conn[c].stalled
    /\ conn' = [conn EXCEPT ![c].stalled = TRUE]
    /\ UNCHANGED <<topicVars, subVars, sess, msgVars, sinkLog, panics>>

\* ---- WebSocketHandler.startHeartbeat -------------------------------------------

\* select, case <-ticker.C: the 30 s ticker has fired
HeartbeatTick(c) ==
    /\ conn[c].hb = "select"
    /\ conn' = [conn EXCEPT ![c].hb = "write"]
    /\ UNCHANGED <<topicVars, subVars, sess, msgVars, sinkLog, panics>>

\* conn.WriteJSON(infoMsg); its error is ignored
HeartbeatWrite(c) ==
    /\ conn[c].hb = "write"
    /\ ~WriteBlocked(c)
    /\ sinkLog' = WriteJSON(sinkLog, c, InfoMsg)
    /\ conn' = [conn EXCEPT ![c].hb = "select"]
    /\ UNCHANGED <<topicVars, subVars, sess, msgVars, panics>>

\* select, case <-ctx.Done(): return
HeartbeatReturn(c) ==
    /\ conn[c].hb = "select"
    /\ conn[c].ctxDone
    /\ conn' = [conn EXCEPT ![c].hb = "stopped"]
    /\ UNCHANGED <<topicVars, subVars, sess, msgVars, sinkLog, panics>>

\* ---- PubSubSystem.DeleteTopic --------------------------------------------------

\* ps.Mu.Lock(); topic, exists := ps.Topics[name]
DeleteTopic(name) ==
    /\ http.pc = "idle"
    /\ ~psMu
    /\ IF Topics[name] = 0
       THEN /\ http' = [http EXCEPT !.resp = "topic not found"]
            /\ UNCHANGED psMu
       ELSE /\ psMu' = TRUE
            /\ http' = [pc |-> "delete", name |-> name, topic |-> Topics[name],
                        start |-> Range(topic[Topics[name]].Subscribers),
                        visited |-> {}, resp |-> "none",
                acc |-> NoCounts, seen |-> {}, out |-> NoCounts]
    /\ UNCHANGED <<Topics, topic, appendLog, delLog, subVars, conn, sess, msgVars,
                   sinkLog, panics>>

\* one iteration of  for _, sub := range topic.Subscribers:
\*   close(sub.Queue); sub.Conn.Close()
\* topic.Mu is not held: the map is the one other goroutines insert into and
\* delete from meanwhile
DeleteTopicClose ==
    /\ http.pc = "delete"
    /\ \E s \in Range(topic[http.topic].Subscribers) \ http.visited :
         IF sub[s].closed
         THEN \* close of closed channel: panic; the deferred ps.Mu.Unlock()
              /\ panics' = Append(panics, [what |-> "close of closed channel",
                                           conn |-> 0, sub |-> s])
              /\ psMu' = FALSE
              /\ http' = [pc |-> "idle", name |-> 0, topic |-> 0, start |-> {},
                          visited |-> {}, resp |-> "panic",
                acc |-> NoCounts, seen |-> {}, out |-> NoCounts]
              /\ UNCHANGED <<sub, conn>>
         ELSE /\ sub' = [sub EXCEPT ![s].closed = TRUE]
              /\ conn' = Close(conn, sub[s].Conn)
              /\ http' = [http EXCEPT !.visited = @ \cup {s}]
              /\ UNCHANGED <<psMu, panics>>
    /\ UNCHANGED <<Topics, topic, appendLog, delLog, proc, enqLog, subLog, sess,
                   msgVars, sinkLog>>

\* DeleteTopic emptying the registry
DeleteTopicReturn_All ==
    /\ http.pc = "delete"
    /\ (Range(topic[http.topic].Subscribers) \cap http.start) \subseteq http.visited
    /\ Topics' = [n \in AllNames |-> 0]
    /\ psMu' = FALSE
    /\ delLog' = [delLog EXCEPT ![http.topic] =
                    [done |-> TRUE, subs |-> Range(topic[http.topic].Subscribers)]]
    /\ http' = [pc |-> "idle", name |-> 0, topic |-> 0, start |-> {}, visited |-> {},
                resp |-> "deleted",
                acc |-> NoCounts, seen |-> {}, out |-> NoCounts]
    /\ UNCHANGED <<topic, appendLog, subVars, conn, sess, msgVars, sinkLog, panics>>

\* DeleteTopic returning with ps.Mu still locked (no deferred Unlock)
DeleteTopicReturn_NoUnlock ==
    /\ http.pc = "delete"
    /\ (Range(topic[http.topic].Subscribers) \cap http.start) \subseteq http.visited
    /\ Topics' = [Topics EXCEPT ![http.name] = 0]
    /\ delLog' = [delLog EXCEPT ![http.topic] =
                    [done |-> TRUE, subs |-> Range(topic[http.topic].Subscribers)]]
    /\ http' = [pc |-> "idle", name |-> 0, topic |-> 0, start |-> {}, visited |-> {},
                resp |-> "deleted",
                acc |-> NoCounts, seen |-> {}, out |-> NoCounts]
    /\ UNCHANGED <<psMu, topic, appendLog, subVars, conn, sess, msgVars, sinkLog, panics>>

\* the range loop is over (an entry inserted while it ran may have been
\* skipped): delete(ps.Topics, name); return nil; the deferred ps.Mu.Unlock()
DeleteTopicReturn ==
    /\ http.pc = "delete"
    /\ (Range(topic[http.topic].Subscribers) \cap http.start) \subseteq http.visited
    /\ Topics' = [Topics EXCEPT ![http.name] = 0]
    /\ psMu' = FALSE
    /\ delLog' = [delLog EXCEPT ![http.topic] =
                    [done |-> TRUE, subs |-> Range(topic[http.topic].Subscribers)]]
    /\ http' = [pc |-> "idle", name |-> 0, topic |-> 0, start |-> {}, visited |-> {},
                resp |-> "deleted",
                acc |-> NoCounts, seen |-> {}, out |-> NoCounts]
    /\ UNCHANGED <<topic, appendLog, subVars, conn, sess, msgVars, sinkLog, panics>>

\* ---- PubSubSystem.GetHealth ----------------------------------------------------

\* ps.Mu.RLock(); totalSubscribers := 0. NewTopic and DeleteTopic wait for the
\* read lock to be released
GetHealth ==
    /\ http.pc = "idle"
    /\ ~psMu
    /\ http' = [http EXCEPT !.pc = "health", !.visited = {}, !.acc = NoCounts,
                            !.seen = {TotalSubscribers(topic)}]
    /\ UNCHANGED <<Topics, psMu, topic, appendLog, delLog, subVars, conn, sess, msgVars,
                   sinkLog, panics>>

\* one iteration of  for _, topic := range ps.Topics:
\*   totalSubscribers += len(topic.Subscribers)
\* topic.Mu is not held
GetHealthVisit ==
    /\ http.pc = "health"
    /\ \E n \in {k \in AllNames : Topics[k] # 0} \ http.visited :
          http' = [http EXCEPT !.visited = @ \cup {n},
                               !.acc.subscribers =
                                   @ + MapLen(topic[Topics[n]].Subscribers)]
    /\ UNCHANGED <<Topics, psMu, topic, appendLog, delLog, subVars, conn, sess, msgVars,
                   sinkLog, panics>>

\* return {topics: len(ps.Topics), subscribers: totalSubscribers}; RUnlock
GetHealthReturn ==
    /\ http.pc = "health"
    /\ {k \in AllNames : Topics[k] # 0} \subseteq http.visited
    /\ http' = [http EXCEPT !.pc = "idle", !.visited = {}, !.acc = NoCounts,
                            !.seen = {}, !.resp = "health",
                            !.out = [http.acc EXCEPT !.topics = MapLen(Topics)]]
    /\ UNCHANGED <<Topics, psMu, topic, appendLog, delLog, subVars, conn, sess, msgVars,
                   sinkLog, panics>>

\* ---- PubSubSystem.GetStats -----------------------------------------------------

\* ps.Mu.RLock(); topicStats := make(map[string]interface{})
GetStats ==
    /\ http.pc = "idle"
    /\ ~psMu
    /\ http' = [http EXCEPT !.pc = "stats", !.visited = {}, !.acc = NoCounts]
    /\ UNCHANGED <<Topics, psMu, topic, appendLog, delLog, subVars, conn, sess, msgVars,
                   sinkLog, panics>>

\* one iteration of  for name, topic := range ps.Topics:
\*   topicStats[name] = {messages: len(topic.Messages),
\*                       subscribers: len(topic.Subscribers)}
GetStatsVisit ==
    /\ http.pc = "stats"
    /\ \E n \in {k \in AllNames : Topics[k] # 0} \ http.visited :
          http' = [http EXCEPT
                     !.visited = @ \cup {n},
                     !.acc.subscribers = @ + MapLen(topic[Topics[n]].Subscribers),
                     !.acc.stats[n] = TopicStats(Len(topic[Topics[n]].Messages),
                                                 MapLen(topic[Topics[n]].Subscribers))]
    /\ UNCHANGED <<Topics, psMu, topic, appendLog, delLog, subVars, conn, sess, msgVars,
                   sinkLog, panics>>

\* stats["topics"] = topicStats; return stats; RUnlock
GetStatsReturn ==
    /\ http.pc = "stats"
    /\ {k \in AllNames : Topics[k] # 0} \subseteq http.visited
    /\ http' = [http EXCEPT !.pc = "idle", !.visited = {}, !.acc = NoCounts,
                            !.resp = "stats",
                            !.out = [NoCounts EXCEPT !.stats = http.acc.stats]]
    /\ UNCHANGED <<Topics, psMu, topic, appendLog, delLog, subVars, conn, sess, msgVars,
                   sinkLog, panics>>

\* ---- PubSubSystem.GetTopics ----------------------------------------------------

\* ps.Mu.RLock(); topics := make(map[string]interface{})
GetTopics ==
    /\ http.pc = "idle"
    /\ ~psMu
    /\ http' = [http EXCEPT !.pc = "list", !.visited = {}, !.acc = NoCounts]
    /\ UNCHANGED <<Topics, psMu, topic, appendLog, delLog, subVars, conn, sess, msgVars,
                   sinkLog, panics>>

\* one iteration of  for name, topic := range ps.Topics:
\*   topics[name] = {subscribers: len(topic.Subscribers)}
\* topic.Mu is not held; the entry has no messages count
GetTopicsVisit ==
    /\ http.pc = "list"
    /\ \E n \in {k \in AllNames : Topics[k] # 0} \ http.visited :
          http' = [http EXCEPT
                     !.visited = @ \cup {n},
                     !.acc.stats[n] = TopicStats(0, MapLen(topic[Topics[n]].Subscribers))]
    /\ UNCHANGED <<Topics, psMu, topic, appendLog, delLog, subVars, conn, sess, msgVars,
                   sinkLog, panics>>

\* return {topics: topics}; RUnlock
GetTopicsReturn ==
    /\ http.pc = "list"
    /\ {k \in AllNames : Topics[k] # 0} \subseteq http.visited
    /\ http' = [http EXCEPT !.pc = "idle", !.visited = {}, !.acc = NoCounts,
                            !.resp = "topics",
                            !.out = [NoCounts EXCEPT !.stats = http.acc.stats]]
    /\ UNCHANGED <<Topics, psMu, topic, appendLog, delLog, subVars, conn, sess, msgVars,
                   sinkLog, panics>>

\* ---- specifications -----------------------------------------------------------
\* Each specification starts from the broker as constructed and composes the
\* operations above; its bounds limit how many objects a behaviour allocates.

\* the requests of the scenarios that do not look at ids, payloads and
\* request ids: a publish of payload 1 under the client's UUID, a subscribe and
\* an unsubscribe, all without request_id
Publish(name) ==
    ClientMessage(name, Empty, 0, Empty, Message(ClientUUID, [hi |-> 0, lo |-> 1]))
Subscribe(name, cid, n) == ClientMessage(name, cid, n, Empty, Nil)
Unsubscribe(name, cid) == ClientMessage(name, cid, 0, Empty, Nil)

\* subscribe requests that have resolved their topic and not yet registered
Subscribing == Cardinality({c \in Conns : sess[c].pc = "subAdd"})

\* Replay: publishers and one subscription with a replay window, its delivery
\* loop running beside the replay.
ReplayMsgs == 3      \* publishes admitted in one behaviour
ReplaySubs == 1      \* Subscriber objects allocated in one behaviour
ReplayTopics == 1    \* Topic objects allocated in one behaviour

NextReplay ==
    \/ \E name \in TopicNames : Len(topic) < ReplayTopics /\ NewTopic(name)
    \/ \E c \in Conns, name \in TopicNames :
          nMsgs < ReplayMsgs /\ handlePublish(c, Publish(name))
    \/ \E c \in Conns : PublishAdd(c)
    \/ \E c \in Conns : BroadcastSnapshot(c)
    \/ \E c \in Conns : BroadcastSend(c)
    \/ \E c \in Conns : BroadcastSlowWrite(c)
    \/ \E c \in Conns : BroadcastSlowClose(c)
    \/ \E c \in Conns : PublishAck(c)
    \/ \E c \in Conns, name \in TopicNames, cid \in ClientIds, n \in LastNs :
          Len(sub) + Subscribing < ReplaySubs /\ handleSubscribe(c, Subscribe(name, cid, n))
    \/ \E c \in Conns : SubscribeAdd(c)
    \/ \E c \in Conns : SubscribeAck(c)
    \/ \E c \in Conns : SubscribeGet(c)
    \/ \E c \in Conns : SubscribeReplay(c)
    \/ \E s \in 1..Len(sub) : ProcReceive(s)
    \/ \E s \in 1..Len(sub) : ProcReturn(s)
    \/ \E s \in 1..Len(sub) : ProcWrite(s)
    \/ \E c \in Conns : conn[c].closed /\ SessionEnd(c)

SpecReplay == Init /\ [][NextReplay]_vars

\* Fanout: concurrent publishers and the subscribers of one topic with their
\* delivery loops.
FanoutMsgs == 2      \* publishes admitted in one behaviour
FanoutSubs == 2      \* Subscriber objects allocated in one behaviour
FanoutTopics == 1    \* Topic objects allocated in one behaviour

NextFanout ==
    \/ \E name \in TopicNames : Len(topic) < FanoutTopics /\ NewTopic(name)
    \/ \E c \in Conns, name \in TopicNames :
          nMsgs < FanoutMsgs /\ handlePublish(c, Publish(name))
    \/ \E c \in Conns : PublishAdd(c)
    \/ \E c \in Conns : BroadcastSnapshot(c)
    \/ \E c \in Conns : BroadcastSend(c)
    \/ \E c \in Conns : BroadcastSlowWrite(c)
    \/ \E c \in Conns : BroadcastSlowClose(c)
    \/ \E c \in Conns : PublishAck(c)
    \/ \E c \in Conns, name \in TopicNames, cid \in ClientIds :
          Len(sub) + Subscribing < FanoutSubs /\ handleSubscribe(c, Subscribe(name, cid, 0))
    \/ \E c \in Conns : SubscribeAdd(c)
    \/ \E c \in Conns : SubscribeAck(c)
    \/ \E s \in 1..Len(sub) : ProcReceive(s)
    \/ \E s \in 1..Len(sub) : ProcReturn(s)
    \/ \E s \in 1..Len(sub) : ProcWrite(s)
    \/ \E c \in Conns : conn[c].closed /\ SessionEnd(c)

SpecFanout == Init /\ [][NextFanout]_vars

\* Churn: publishers of one topic while its subscriber comes and goes and
\* clients stop reading.
ChurnMsgs == 2       \* publishes admitted in one behaviour
ChurnSubs == 1       \* Subscriber objects allocated in one behaviour
ChurnTopics == 1     \* Topic objects allocated in one behaviour

NextChurn ==
    \/ \E name \in TopicNames : Len(topic) < ChurnTopics /\ NewTopic(name)
    \/ \E c \in Conns, name \in TopicNames :
          nMsgs < ChurnMsgs /\ handlePublish(c, Publish(name))
    \/ \E c \in Conns : PublishAdd(c)
    \/ \E c \in Conns : BroadcastSnapshot(c)
    \/ \E c \in Conns : BroadcastSend(c)
    \/ \E c \in Conns : BroadcastSlowWrite(c)
    \/ \E c \in Conns : BroadcastSlowClose(c)
    \/ \E c \in Conns : PublishAck(c)
    \/ \E c \in Conns, name \in TopicNames, cid \in ClientIds :
          Len(sub) + Subscribing < ChurnSubs /\ handleSubscribe(c, Subscribe(name, cid, 0))
    \/ \E c \in Conns : SubscribeAdd(c)
    \/ \E c \in Conns : SubscribeAck(c)
    \/ \E c \in Conns, name \in TopicNames, cid \in ClientIds :
          handleUnsubscribe(c, Unsubscribe(name, cid))
    \/ \E c \in Conns : RemoveSubscriber(c)
    \/ \E c \in Conns : UnsubscribeAck(c)
    \/ \E s \in 1..Len(sub) : ProcReceive(s)
    \/ \E s \in 1..Len(sub) : ProcReturn(s)
    \/ \E s \in 1..Len(sub) : ProcWrite(s)
    \/ \E c \in Conns : SessionEnd(c)
    \/ \E c \in Conns : Stall(c)

SpecChurn == Init /\ [][NextChurn]_vars

\* the delivery loop of subscriber s, once s exists, takes a step
Deliver(s) == s <= Len(sub) /\ (ProcReceive(s) \/ ProcWrite(s))

\* Churn with a scheduler that does not starve a delivery loop: the goroutine
\* started by StartMessageProcessor runs whenever it can
SpecChurnFair == SpecChurn /\ \A s \in 1..ChurnSubs : WF_vars(Deliver(s))

\* Delete: an administrator creates and deletes a topic over HTTP while
\* clients subscribe to it and unsubscribe from it.
DeleteSubs == 2      \* Subscriber objects allocated in one behaviour
DeleteTopics == 2    \* Topic objects allocated in one behaviour

NextDelete ==
    \/ \E name \in TopicNames : Len(topic) < DeleteTopics /\ NewTopic(name)
    \/ \E name \in TopicNames : DeleteTopic(name)
    \/ DeleteTopicClose
    \/ DeleteTopicReturn
    \/ \E c \in Conns, name \in TopicNames, cid \in ClientIds :
          Len(sub) + Subscribing < DeleteSubs /\ handleSubscribe(c, Subscribe(name, cid, 0))
    \/ \E c \in Conns : SubscribeAdd(c)
    \/ \E c \in Conns : SubscribeAck(c)
    \/ \E c \in Conns, name \in TopicNames, cid \in ClientIds :
          handleUnsubscribe(c, Unsubscribe(name, cid))
    \/ \E c \in Conns : RemoveSubscriber(c)
    \/ \E c \in Conns : UnsubscribeAck(c)
    \/ \E s \in 1..Len(sub) : ProcReturn(s)
    \/ \E c \in Conns : conn[c].closed /\ SessionEnd(c)

SpecDelete == Init /\ [][NextDelete]_vars

\* Registry: an administrator creates and deletes topics over HTTP, up to and
\* beyond MAX_TOPICS, while a client subscribes to one of them and publishes a
\* message (one message never fills a queue).
RegistrySubs == 1    \* Subscriber objects allocated in one behaviour
RegistryTopics == 3  \* Topic objects allocated in one behaviour
RegistryMsgs == 1    \* publishes admitted in one behaviour
RegistryClients == 1 \* connections that send requests

NextRegistry ==
    \/ \E name \in AllNames : Len(topic) < RegistryTopics /\ NewTopic(name)
    \/ \E name \in AllNames : DeleteTopic(name)
    \/ DeleteTopicClose
    \/ DeleteTopicReturn
    \/ \E c \in 1..RegistryClients, name \in AllNames, cid \in ClientIds :
          Len(sub) + Subscribing < RegistrySubs
             /\ handleSubscribe(c, Subscribe(name, cid, 0))
    \/ \E c \in Conns : SubscribeAdd(c)
    \/ \E c \in Conns : SubscribeAck(c)
    \/ \E c \in 1..RegistryClients, name \in AllNames :
          nMsgs < RegistryMsgs /\ handlePublish(c, Publish(name))
    \/ \E c \in Conns : PublishAdd(c)
    \/ \E c \in Conns : BroadcastSnapshot(c)
    \/ \E c \in Conns : BroadcastSend(c)
    \/ \E c \in Conns : PublishAck(c)
    \/ \E s \in 1..Len(sub) : ProcReceive(s)
    \/ \E s \in 1..Len(sub) : ProcWrite(s)
    \/ \E s \in 1..Len(sub) : ProcReturn(s)
    \/ \E c \in Conns : conn[c].closed /\ SessionEnd(c)

SpecRegistry == Init /\ [][NextRegistry]_vars

\* Capacity: topics are created up to and beyond MAX_TOPICS while clients
\* subscribe to one topic, up to and beyond MAX_SUBSCRIBERS_PER_TOPIC, and
\* unsubscribe from it.
CapacitySubs == 3    \* Subscriber objects allocated in one behaviour
CapacityTopics == 3  \* Topic objects allocated in one behaviour
CapacityLeavers == 1 \* client_id values that unsubscribe

NextCapacity ==
    \/ \E name \in AllNames : Len(topic) < CapacityTopics /\ NewTopic(name)
    \/ \E c \in Conns, name \in TopicNames, cid \in AllClients :
          Len(sub) + Subscribing < CapacitySubs
             /\ handleSubscribe(c, Subscribe(name, cid, 0))
    \/ \E c \in Conns : SubscribeAdd(c)
    \/ \E c \in Conns : SubscribeAck(c)
    \/ \E c \in Conns, name \in TopicNames, cid \in 1..CapacityLeavers :
          handleUnsubscribe(c, Unsubscribe(name, cid))
    \/ \E c \in Conns : RemoveSubscriber(c)
    \/ \E c \in Conns : UnsubscribeAck(c)
    \/ \E s \in 1..Len(sub) : ProcReturn(s)
    \/ \E c \in Conns : conn[c].closed /\ SessionEnd(c)

SpecCapacity == Init /\ [][NextCapacity]_vars

\* Requests: one client sends every shape of subscribe, unsubscribe and publish
\* request (fields missing, unknown topic, ids present, absent and malformed,
\* small and large payloads, with and without request_id) while one topic is
\* created.
NRequestIds == 1     \* request_id values besides the absent one
RequestsMsgs == 2    \* publishes admitted in one behaviour
RequestsSubs == 1    \* Subscriber objects allocated in one behaviour
RequestsTopics == 1  \* Topic objects allocated in one behaviour
RequestsClients == 1 \* connections that send requests
RequestsLastN == 1   \* largest last_n a subscribe request carries

RequestIds == 0..NRequestIds

\* 1, and 2^53 + 1
Payloads == {[hi |-> 0, lo |-> 1], [hi |-> Limb \div 2, lo |-> 1]}

Messages ==
    {Nil} \cup {Message(id, p) : id \in {"", "not-a-uuid", ClientUUID}, p \in Payloads}

PublishRequests ==
    {ClientMessage(name, Empty, 0, rid, m) :
        name \in {Empty} \cup 1..(RequestsTopics + 1), rid \in RequestIds, m \in Messages}

SubscribeRequests ==
    {ClientMessage(name, cid, n, rid, Nil) :
        name \in {Empty} \cup 1..(RequestsTopics + 1), cid \in {Empty} \cup 1..RequestsSubs,
        n \in 0..RequestsLastN, rid \in RequestIds}

UnsubscribeRequests == {r \in SubscribeRequests : r.LastN = 0}

NextRequests ==
    \/ \E name \in 1..RequestsTopics : Len(topic) < RequestsTopics /\ NewTopic(name)
    \/ \E c \in 1..RequestsClients, msg \in PublishRequests :
          nMsgs < RequestsMsgs /\ handlePublish(c, msg)
    \/ \E c \in Conns : PublishAdd(c)
    \/ \E c \in Conns : BroadcastSnapshot(c)
    \/ \E c \in Conns : BroadcastSend(c)
    \/ \E c \in Conns : BroadcastSlowWrite(c)
    \/ \E c \in Conns : BroadcastSlowClose(c)
    \/ \E c \in Conns : PublishAck(c)
    \/ \E c \in 1..RequestsClients, msg \in SubscribeRequests :
          Len(sub) + Subscribing < RequestsSubs /\ handleSubscribe(c, msg)
    \/ \E c \in Conns : SubscribeAdd(c)
    \/ \E c \in Conns : SubscribeAck(c)
    \/ \E c \in Conns : SubscribeGet(c)
    \/ \E c \in Conns : SubscribeReplay(c)
    \/ \E c \in 1..RequestsClients, msg \in UnsubscribeRequests :
          handleUnsubscribe(c, msg)
    \/ \E c \in Conns : RemoveSubscriber(c)
    \/ \E c \in Conns : UnsubscribeAck(c)
    \/ \E s \in 1..Len(sub) : ProcReceive(s)
    \/ \E s \in 1..Len(sub) : ProcReturn(s)
    \/ \E s \in 1..Len(sub) : ProcWrite(s)
    \/ \E c \in Conns : conn[c].closed /\ SessionEnd(c)

SpecRequests == Init /\ [][NextRequests]_vars

\* Topics: two topics, each with publishers and subscribers (with and without
\* a replay window), their requests interleaved.
TopicsMsgs == 2      \* publishes admitted in one behaviour
TopicsSubs == 2      \* Subscriber objects allocated in one behaviour
TopicsTopics == 2    \* Topic objects allocated in one behaviour
TopicsLastN == 1     \* largest last_n a subscribe request carries
TopicsPublishers == 1 \* connections that publish

NextTopics ==
    \/ \E name \in 1..TopicsTopics : Len(topic) < TopicsTopics /\ NewTopic(name)
    \/ \E c \in 1..TopicsPublishers, name \in 1..TopicsTopics :
          nMsgs < TopicsMsgs /\ handlePublish(c, Publish(name))
    \/ \E c \in Conns : PublishAdd(c)
    \/ \E c \in Conns : BroadcastSnapshot(c)
    \/ \E c \in Conns : BroadcastSend(c)
    \/ \E c \in Conns : BroadcastSlowWrite(c)
    \/ \E c \in Conns : BroadcastSlowClose(c)
    \/ \E c \in Conns : PublishAck(c)
    \/ \E c \in Conns, name \in 1..TopicsTopics, n \in 0..TopicsLastN :
          Len(sub) + Subscribing < TopicsSubs /\ handleSubscribe(c, Subscribe(name, c, n))
    \/ \E c \in Conns : SubscribeAdd(c)
    \/ \E c \in Conns : SubscribeAck(c)
    \/ \E c \in Conns : SubscribeGet(c)
    \/ \E c \in Conns : SubscribeReplay(c)
    \/ \E s \in 1..Len(sub) : ProcReceive(s)
    \/ \E s \in 1..Len(sub) : ProcReturn(s)
    \/ \E s \in 1..Len(sub) : ProcWrite(s)
    \/ \E c \in Conns : conn[c].closed /\ SessionEnd(c)

SpecTopics == Init /\ [][NextTopics]_vars

\* Health: the management client polls GetHealth while clients subscribe to
\* and unsubscribe from two topics.
HealthSubs == 2      \* Subscriber objects allocated in one behaviour
HealthTopics == 2    \* Topic objects allocated in one behaviour
HealthLeavers == 1   \* connections that unsubscribe

NextHealth ==
    \/ \E name \in 1..HealthTopics : Len(topic) < HealthTopics /\ NewTopic(name)
    \/ \E c \in Conns, name \in 1..HealthTopics :
          Len(sub) + Subscribing < HealthSubs /\ handleSubscribe(c, Subscribe(name, c, 0))
    \/ \E c \in Conns : SubscribeAdd(c)
    \/ \E c \in Conns : SubscribeAck(c)
    \/ \E c \in 1..HealthLeavers, name \in 1..HealthTopics :
          handleUnsubscribe(c, Unsubscribe(name, c))
    \/ \E c \in Conns : RemoveSubscriber(c)
    \/ \E c \in Conns : UnsubscribeAck(c)
    \/ \E s \in 1..Len(sub) : ProcReturn(s)
    \/ \E c \in Conns : conn[c].closed /\ SessionEnd(c)
    \/ GetHealth
    \/ GetHealthVisit
    \/ GetHealthReturn

SpecHealth == Init /\ [][NextHealth]_vars

\* Quiet: clients publish, subscribe and unsubscribe and topics are created
\* and deleted; between operations, with none in progress, the management
\* client calls GetStats or GetHealth, and nothing else starts until the call
\* has returned.
QuietMsgs == 2       \* publishes admitted in one behaviour
QuietSubs == 1       \* Subscriber objects allocated in one behaviour
QuietTopics == 2     \* Topic objects allocated in one behaviour
QuietNames == 2      \* topic names in use
QuietClients == 1    \* connections that send requests

\* GetStats or GetHealth is running
Counting == http.pc \in {"stats", "health"}

\* no operation is in progress
Quiescent ==
    /\ http.pc = "idle"
    /\ \A c \in Conns : sess[c].pc \in {"read", "closed"}
    /\ \A s \in 1..Len(sub) : proc[s].phase # "write"

NextQuiet ==
    \/ \E name \in 1..QuietNames :
          ~Counting /\ Len(topic) < QuietTopics /\ NewTopic(name)
    \/ \E name \in 1..QuietNames : ~Counting /\ DeleteTopic(name)
    \/ ~Counting /\ DeleteTopicClose
    \/ ~Counting /\ DeleteTopicReturn
    \/ \E c \in 1..QuietClients, name \in 1..QuietNames :
          ~Counting /\ nMsgs < QuietMsgs /\ handlePublish(c, Publish(name))
    \/ \E c \in Conns : ~Counting /\ PublishAdd(c)
    \/ \E c \in Conns : ~Counting /\ BroadcastSnapshot(c)
    \/ \E c \in Conns : ~Counting /\ BroadcastSend(c)
    \/ \E c \in Conns : ~Counting /\ BroadcastSlowWrite(c)
    \/ \E c \in Conns : ~Counting /\ BroadcastSlowClose(c)
    \/ \E c \in Conns : ~Counting /\ PublishAck(c)
    \/ \E c \in 1..QuietClients, name \in 1..QuietNames :
          ~Counting /\ Len(sub) + Subscribing < QuietSubs
             /\ handleSubscribe(c, Subscribe(name, c, 0))
    \/ \E c \in Conns : ~Counting /\ SubscribeAdd(c)
    \/ \E c \in Conns : ~Counting /\ SubscribeAck(c)
    \/ \E c \in 1..QuietClients, name \in 1..QuietNames :
          ~Counting /\ handleUnsubscribe(c, Unsubscribe(name, c))
    \/ \E c \in Conns : ~Counting /\ RemoveSubscriber(c)
    \/ \E c \in Conns : ~Counting /\ UnsubscribeAck(c)
    \/ \E s \in 1..Len(sub) : ~Counting /\ ProcReceive(s)
    \/ \E s \in 1..Len(sub) : ~Counting /\ ProcReturn(s)
    \/ \E s \in 1..Len(sub) : ~Counting /\ ProcWrite(s)
    \/ \E c \in Conns : ~Counting /\ conn[c].closed /\ SessionEnd(c)
    \/ Quiescent /\ GetStats
    \/ GetStatsVisit
    \/ GetStatsReturn
    \/ Quiescent /\ GetHealth
    \/ GetHealthVisit
    \/ GetHealthReturn

SpecQuiet == Init /\ [][NextQuiet]_vars

\* Session: clients subscribe, receive a message and heartbeats, stop reading
\* or disconnect at any moment.
SessionMsgs == 1     \* publishes admitted in one behaviour
SessionSubs == 2     \* Subscriber objects allocated in one behaviour
SessionTopics == 1   \* Topic objects allocated in one behaviour
SessionTicks == 1    \* heartbeats a connection receives
SessionPublishers == 1 \* connections that publish

\* the info messages written to connection c
Heartbeats(c) == Len(SelectSeq(sinkLog[c], LAMBDA e : e.type = "info"))

NextSession ==
    \/ \E name \in TopicNames : Len(topic) < SessionTopics /\ NewTopic(name)
    \/ \E c \in 1..SessionPublishers, name \in TopicNames :
          nMsgs < SessionMsgs /\ handlePublish(c, Publish(name))
    \/ \E c \in Conns : PublishAdd(c)
    \/ \E c \in Conns : BroadcastSnapshot(c)
    \/ \E c \in Conns : BroadcastSend(c)
    \/ \E c \in Conns : PublishAck(c)
    \/ \E c \in Conns, name \in TopicNames :
          Len(sub) + Subscribing < SessionSubs /\ handleSubscribe(c, Subscribe(name, c, 0))
    \/ \E c \in Conns : SubscribeAdd(c)
    \/ \E c \in Conns : SubscribeAck(c)
    \/ \E s \in 1..Len(sub) : ProcReceive(s)
    \/ \E s \in 1..Len(sub) : ProcReturn(s)
    \/ \E s \in 1..Len(sub) : ProcWrite(s)
    \/ \E c \in Conns : Heartbeats(c) < SessionTicks /\ HeartbeatTick(c)
    \/ \E c \in Conns : HeartbeatWrite(c)
    \/ \E c \in Conns : HeartbeatReturn(c)
    \/ \E c \in Conns : SessionEnd(c)
    \/ \E c \in Conns : Stall(c)

SpecSession == Init /\ [][NextSession]_vars

\* a step of the delivery loop of subscriber s, once s exists
LoopStep(s) == s <= Len(sub) /\ (ProcReceive(s) \/ ProcWrite(s) \/ ProcReturn(s))

\* Session with a scheduler that starves neither the delivery loops nor the
\* heartbeats: these goroutines run whenever they can, and a select with
\* several ready cases picks among them at random, so that a case that is
\* ready again and again is eventually taken
SpecSessionFair ==
    /\ SpecSession
    /\ \A s \in 1..SessionSubs : WF_vars(LoopStep(s))
    /\ \A c \in Conns : WF_vars(HeartbeatWrite(c)) /\ SF_vars(HeartbeatReturn(c))

\* Locks: every operation that takes ps.Mu or a topic's Mu, interleaved: topics
\* are created, deleted, listed and counted over HTTP while clients publish,
\* subscribe and unsubscribe (one message never fills a queue).
LocksMsgs == 1       \* publishes admitted in one behaviour
LocksSubs == 1       \* Subscriber objects allocated in one behaviour
LocksTopics == 1     \* Topic objects allocated in one behaviour
LocksPublishers == 1 \* connections that publish

\* the step by which the handler of session c, inside a request, goes on: each
\* one starts by taking topic.Mu or writes to the session's connection
HandlerStep(c) ==
    \/ PublishAdd(c) \/ BroadcastSnapshot(c) \/ BroadcastSend(c) \/ PublishAck(c)
    \/ SubscribeAdd(c) \/ SubscribeAck(c)
    \/ RemoveSubscriber(c) \/ UnsubscribeAck(c)

\* the step by which the management request in progress, holding ps.Mu, goes on
ManagementStep ==
    \/ DeleteTopicClose \/ DeleteTopicReturn
    \/ GetTopicsVisit \/ GetTopicsReturn
    \/ GetStatsVisit \/ GetStatsReturn
    \/ GetHealthVisit \/ GetHealthReturn

NextLocks ==
    \/ \E name \in TopicNames : Len(topic) < LocksTopics /\ NewTopic(name)
    \/ \E name \in TopicNames : DeleteTopic(name)
    \/ DeleteTopicClose
    \/ DeleteTopicReturn
    \/ GetTopics
    \/ GetTopicsVisit
    \/ GetTopicsReturn
    \/ GetStats
    \/ GetStatsVisit
    \/ GetStatsReturn
    \/ GetHealth
    \/ GetHealthVisit
    \/ GetHealthReturn
    \/ \E c \in 1..LocksPublishers, name \in TopicNames :
          nMsgs < LocksMsgs /\ handlePublish(c, Publish(name))
    \/ \E c \in Conns : PublishAdd(c)
    \/ \E c \in Conns : BroadcastSnapshot(c)
    \/ \E c \in Conns : BroadcastSend(c)
    \/ \E c \in Conns : PublishAck(c)
    \/ \E c \in Conns \ 1..LocksPublishers, name \in TopicNames :
          Len(sub) + Subscribing < LocksSubs /\ handleSubscribe(c, Subscribe(name, 1, 0))
    \/ \E c \in Conns : SubscribeAdd(c)
    \/ \E c \in Conns : SubscribeAck(c)
    \/ \E c \in Conns \ 1..LocksPublishers, name \in TopicNames :
          handleUnsubscribe(c, Unsubscribe(name, 1))
    \/ \E c \in Conns : RemoveSubscriber(c)
    \/ \E c \in Conns : UnsubscribeAck(c)
    \/ \E s \in 1..Len(sub) : ProcReceive(s)
    \/ \E s \in 1..Len(sub) : ProcReturn(s)
    \/ \E s \in 1..Len(sub) : ProcWrite(s)
    \/ \E c \in Conns : conn[c].closed /\ SessionEnd(c)

SpecLocks == Init /\ [][NextLocks]_vars

\* Locks with a scheduler that starves no goroutine that can run: a handler
\* inside a request and a management request in progress take their next step
SpecLocksFair ==
    /\ SpecLocks
    /\ \A c \in Conns : WF_vars(HandlerStep(c))
    /\ WF_vars(ManagementStep)

\* Removal: the single-file server. Clients subscribe to a topic, also with a
\* client_id that is registered already, and disconnect; the topic is deleted
\* and created again; each delivery loop that returns removes its client_id
\* from the topic of its name.
RemovalSubs == 2     \* Subscriber objects allocated in one behaviour
RemovalTopics == 2   \* Topic objects allocated in one behaviour

\* the single-file server's DeleteTopic holds the Mu of Topic object t: it
\* takes it around its loop over the subscribers
DeleteHolds(t) == http.pc = "delete" /\ http.topic = t

NextRemoval ==
    \/ \E name \in TopicNames : Len(topic) < RemovalTopics /\ NewTopic(name)
    \/ \E name \in TopicNames : DeleteTopic(name)
    \/ DeleteTopicClose
    \/ DeleteTopicReturn
    \/ \E c \in Conns, name \in TopicNames, cid \in ClientIds :
          Len(sub) + Subscribing < RemovalSubs /\ handleSubscribe(c, Subscribe(name, cid, 0))
    \/ \E c \in Conns : ~DeleteHolds(sess[c].topic) /\ SubscribeAdd(c)
    \/ \E c \in Conns : SubscribeAck(c)
    \/ \E s \in 1..Len(sub) : ProcReturn(s)
    \/ \E s \in 1..Len(sub) : ~DeleteHolds(Topics[sub[s].Topic]) /\ ProcRemove(s)
    \/ \E c \in Conns : SessionEnd(c)

SpecRemoval == Init /\ [][NextRemoval]_vars

\* ---- properties ---------------------------------------------------------------

Min(a, b) == IF a < b THEN a ELSE b

\* the last k elements of q, by position
LastK(q, k) == [i \in 1..k |-> q[Len(q) - k + i]]

\* the messages of the events written to connection c for subscriber s:
\* replayed ones (live = FALSE) or delivered ones (live = TRUE)
Events(c, s, live) ==
    LET evs == SelectSeq(sinkLog[c],
                         LAMBDA e : e.type = "event" /\ e.sub = s /\ e.live = live)
    IN  [i \in 1..Len(evs) |-> evs[i].msg]

IsPrefix(p, q) == Len(p) <= Len(q) /\ \A i \in 1..Len(p) : p[i] = q[i]

\* C1: every topic's history holds at most TOPIC_HISTORY_SIZE messages, and
\* after K appends it is exactly the last min(K, H) appended messages in
\* append order, whichever publishers appended them.
C1_HistoryIsLastAppends ==
    \A t \in 1..Len(topic) :
        /\ Len(topic[t].Messages) <= TopicHistorySize
        /\ topic[t].Messages =
             LastK(appendLog[t], Min(Len(appendLog[t]), TopicHistorySize))

\* C1 witness: a history that overflowed, filled by publishers whose appends
\* interleaved (a message admitted later was appended earlier)
C1_Witness ==
    \E t \in 1..Len(topic) :
        /\ Len(appendLog[t]) > TopicHistorySize
        /\ Len(topic[t].Messages) = TopicHistorySize
        /\ \E i \in 1..(Len(appendLog[t]) - 1) : appendLog[t][i] > appendLog[t][i + 1]

\* position of the first occurrence of m in q, 0 when m is not in q
Pos(q, m) ==
    IF \E i \in 1..Len(q) : q[i] = m
    THEN CHOOSE i \in 1..Len(q) : q[i] = m /\ \A j \in 1..(i - 1) : q[j] # m
    ELSE 0

\* p occurs in q as a run of consecutive elements
IsRun(p, q) ==
    \E k \in 0..Len(q) :
        /\ k + Len(p) <= Len(q)
        /\ \A i \in 1..Len(p) : p[i] = q[k + i]

\* p and q hold their common elements in the same relative order
SameOrder(p, q) ==
    \A i, j \in 1..Len(p) :
        (i < j /\ Pos(q, p[i]) > 0 /\ Pos(q, p[j]) > 0) => Pos(q, p[i]) < Pos(q, p[j])

\* C2: for every subscriber that was never evicted, the messages enqueued on
\* its queue are, in enqueue order, a contiguous run of the order in which
\* the topic's history received them.
C2_EnqueueOrderIsHistoryOrder ==
    \A s \in 1..Len(sub) :
        ~subLog[s].evicted => IsRun(enqLog[s], appendLog[subLog[s].topic])

\* C3: two subscribers of one topic that both received two messages as live
\* events received them in the same relative order.
C3_SubscribersAgreeOnOrder ==
    \A s1, s2 \in 1..Len(sub) :
        subLog[s1].topic = subLog[s2].topic =>
            SameOrder(Events(sub[s1].Conn, s1, TRUE), Events(sub[s2].Conn, s2, TRUE))

\* C4: when a publish commits, every subscriber whose queue it found full has
\* been written a SLOW_CONSUMER error, has a closed sink and is no longer in
\* the topic's subscriber map.
C4_SlowConsumerEvicted ==
    \A c \in Conns :
        sess[c].pc = "pubAck" =>
            \A s \in sess[c].full :
                /\ \E i \in 1..Len(sinkLog[sub[s].Conn]) :
                       sinkLog[sub[s].Conn][i] = SlowConsumerMsg(s)
                /\ conn[sub[s].Conn].closed
                /\ s \notin Range(topic[sess[c].topic].Subscribers)

\* a committing publish has enqueued its message on every subscriber of its
\* snapshot whose queue had room
C5_RestOfSnapshotEnqueued ==
    \A c \in Conns :
        sess[c].pc = "pubAck" =>
            \A s \in sess[c].seen \ sess[c].full :
                \E i \in 1..Len(enqLog[s]) : enqLog[s][i] = sess[c].msg

\* C5: a publish that finds a full queue still enqueues on the rest of its
\* snapshot, and a subscriber that always has room receives the messages
\* published while it is registered in publication order.
C5_HealthySubscriberUnaffected ==
    /\ C5_RestOfSnapshotEnqueued
    /\ \A s \in 1..Len(sub) :
         ~subLog[s].evicted => SameOrder(enqLog[s], appendLog[subLog[s].topic])

\* C6: a publish never waits for a subscriber's sink: it is never at a write
\* to a subscriber's sink that cannot accept it.
C6_PublishNeverWaitsOnSink ==
    \A c \in Conns :
        sess[c].pc = "pubSlowWrite" => ~WriteBlocked(sub[sess[c].cur].Conn)

\* C7: fan-out never sends on a queue that has been closed.
C7_NoSendOnClosedQueue ==
    \A i \in 1..Len(panics) : panics[i].what # "send on closed channel"

\* C8: once DeleteTopic has returned, the deleted topic is never found by a
\* lookup again, and every subscriber that was registered on it when it
\* returned has a closed queue, a closed sink and is in the subscriber map of
\* no topic of the registry.
C8_DeletedTopicTerminated ==
    \A t \in 1..Len(topic) :
        delLog[t].done =>
            /\ \A name \in TopicNames : Topics[name] # t
            /\ \A s \in delLog[t].subs :
                 /\ sub[s].closed
                 /\ conn[sub[s].Conn].closed
                 /\ \A name \in TopicNames :
                      Topics[name] # 0 => s \notin Range(topic[Topics[name]].Subscribers)

\* the publish that allocated message m is over: no session is working on it
Finished(m) == \A c \in Conns : sess[c].msg # m

\* message m was appended to the history of the topic its publish resolved
Appended(m) ==
    \E i \in 1..Len(appendLog[pubLog[m].topic]) : appendLog[pubLog[m].topic][i] = m

\* C11: a publish on an existing topic writes its ack only after its message
\* was appended, and every publish that appended its message and is over has
\* written its ack, whatever happened to the delivery to the subscribers.
C11_AckIffAppended ==
    \A m \in 1..Len(pubLog) :
        /\ pubLog[m].acked => Appended(m)
        /\ (Finished(m) /\ Appended(m)) => pubLog[m].acked

\* how often m occurs in q
Count(q, m) == Cardinality({i \in 1..Len(q) : q[i] = m})

\* what subscriber s was handed and has not written yet, oldest first
Pending(s) ==
    (IF proc[s].phase = "write" THEN <<proc[s].msg>> ELSE <<>>) \o sub[s].Queue

\* C12: no message is enqueued twice on a queue; an acked publish has enqueued
\* its message exactly once on every subscriber that was registered from its
\* start to its ack, or has classified that subscriber as a slow consumer; and
\* a never-evicted subscriber with an open sink has written, or still holds,
\* exactly the messages enqueued on it, each once (no loss, no duplicate).
C12_FanoutExactlyOnce ==
    /\ \A m \in 1..Len(pubLog) : \A s \in 1..Len(sub) :
         /\ Count(enqLog[s], m) <= 1
         /\ ( /\ pubLog[m].acked
              /\ s \in pubLog[m].before
              /\ s \in Range(topic[pubLog[m].topic].Subscribers) )
            => Count(enqLog[s], m) = (IF s \in pubLog[m].full THEN 0 ELSE 1)
    /\ \A s \in 1..Len(sub) :
         (~subLog[s].evicted /\ ~conn[sub[s].Conn].closed)
            => Events(sub[s].Conn, s, TRUE) \o Pending(s) = enqLog[s]

\* C12 witness: two acked publishes from different sessions, both begun with
\* subscriber s registered, both delivered to s, while a second subscriber was
\* classified as a slow consumer
C12_Witness ==
    \E s \in 1..Len(sub) :
        /\ Len(pubLog) = 2
        /\ \A m \in 1..2 : pubLog[m].acked /\ s \in pubLog[m].before
        /\ Len(Events(sub[s].Conn, s, TRUE)) = 2
        /\ \E m \in 1..2 : pubLog[m].full # {}

\* message m was enqueued on subscriber s
Enqueued(s, m) == s <= Len(sub) /\ Count(enqLog[s], m) > 0

\* message m was written to the sink of subscriber s as a live event
Delivered(s, m) == s <= Len(sub) /\ Count(Events(sub[s].Conn, s, TRUE), m) > 0

\* subscriber s was unsubscribed or its topic deleted (queue closed), it was
\* evicted, its session was cancelled, or its sink does not take writes
Excused(s) ==
    /\ s <= Len(sub)
    /\ \/ sub[s].closed
       \/ subLog[s].evicted
       \/ conn[sub[s].Conn].ctxDone
       \/ conn[sub[s].Conn].closed
       \/ conn[sub[s].Conn].stalled

\* C13: with a fair delivery loop, the live events written for a subscriber are
\* always a prefix of what was enqueued on it (enqueue order), and every
\* enqueued message is eventually written as an event unless the subscriber
\* was unsubscribed, evicted, deleted, cancelled or its sink stopped writing.
C13_EnqueuedEventuallyDelivered ==
    /\ [](\A s \in 1..Len(sub) : IsPrefix(Events(sub[s].Conn, s, TRUE), enqLog[s]))
    /\ \A s \in 1..ChurnSubs : \A m \in 1..ChurnMsgs :
         Enqueued(s, m) ~> (Delivered(s, m) \/ Excused(s))

\* C13 witness: two messages enqueued on a subscriber and both written to its
\* sink while none of the excuses applies
C13_Witness ==
    \E s \in 1..Len(sub) :
        /\ ~Excused(s)
        /\ Len(enqLog[s]) = 2
        /\ Events(sub[s].Conn, s, TRUE) = enqLog[s]

\* C14: the registry never holds more than MAX_TOPICS topics and no topic's
\* subscribers map ever holds more than MAX_SUBSCRIBERS_PER_TOPIC entries.
C14_WithinCapacity ==
    /\ MapLen(Topics) <= MaxTopics
    /\ \A t \in 1..Len(topic) : MapLen(topic[t].Subscribers) <= MaxSubscribers

\* C14 witness: the registry is full and has refused a create, a topic's map
\* is full and has refused a subscribe
C14_Witness ==
    /\ MapLen(Topics) = MaxTopics
    /\ http.resp = "maximum topics reached"
    /\ \E t \in 1..Len(topic) : MapLen(topic[t].Subscribers) = MaxSubscribers
    /\ \E c \in Conns : sess[c].resp.code = "INTERNAL"

\* the status handleCreateTopic answers for the result of NewTopic
CreateStatus(result) ==
    IF result = "created" THEN 201
    ELSE IF result = "topic already exists" THEN 409
    ELSE 500

\* C15: in every state, a create of a name that is in the registry answers
\* "topic already exists", which the facade maps to 409 Conflict, and leaves
\* the registry and every topic unchanged.
C15_CreateExistingIsConflict ==
    [][\A name \in AllNames :
          (Topics[name] # 0 /\ NewTopic(name))
             => /\ http'.resp = "topic already exists"
                /\ CreateStatus(http'.resp) = 409
                /\ UNCHANGED <<Topics, topic>>]_vars

\* C16: a create of a name that is not in the registry installs, when the
\* registry has room, a topic of that name with empty history and no
\* subscribers and changes no other topic; when the registry is full it
\* answers the capacity error and leaves the registry unchanged.
C16_CreateNew ==
    [][\A name \in AllNames :
          (Topics[name] = 0 /\ NewTopic(name))
             => IF MapLen(Topics) < MaxTopics
                THEN /\ http'.resp = "created"
                     /\ Topics'[name] = Len(topic) + 1
                     /\ \A n \in AllNames \ {name} : Topics'[n] = Topics[n]
                     /\ Len(topic') = Len(topic) + 1
                     /\ topic'[Len(topic')] = [Name |-> name, Messages |-> <<>>,
                                               Subscribers |-> NoSubscribers]
                     /\ \A t \in 1..Len(topic) : topic'[t] = topic[t]
                ELSE /\ http'.resp = "maximum topics reached"
                     /\ UNCHANGED <<Topics, topic>>]_vars

\* C16 witness: the registry has been filled by creates, one of them beside a
\* topic with a subscriber, and a create of a further name was refused
C16_Witness ==
    /\ MapLen(Topics) = MaxTopics
    /\ \E name \in AllNames : Topics[name] = 0
    /\ http.resp = "maximum topics reached"
    /\ \E t \in 1..Len(topic) : Range(topic[t].Subscribers) # {}

\* the topics other than Topic object t0, and the subscribers in their maps,
\* are the same before and after the step
OthersUnchanged(t0) ==
    /\ \A n \in AllNames : Topics[n] # t0 => Topics'[n] = Topics[n]
    /\ \A t \in 1..Len(topic) :
         t # t0 => /\ topic'[t] = topic[t]
                   /\ \A s \in Range(topic[t].Subscribers) \ Range(topic[t0].Subscribers) :
                        sub'[s] = sub[s]

\* C17: DeleteTopic of a name that is not in the registry answers "topic not
\* found" and changes nothing; every step of DeleteTopic(T) leaves the other
\* topics' registration, history, subscribers map and subscriber queues
\* unchanged, and its last step removes T and only T from the registry.
C17_DeleteFrame ==
    [][/\ \A name \in AllNames :
            DeleteTopic(name)
               => IF Topics[name] = 0
                  THEN /\ http'.resp = "topic not found"
                       /\ UNCHANGED <<Topics, topic, sub, proc, conn, sinkLog>>
                  ELSE OthersUnchanged(Topics[name]) /\ Topics' = Topics
       /\ DeleteTopicClose => OthersUnchanged(http.topic) /\ Topics' = Topics
       /\ DeleteTopicReturn
            => /\ OthersUnchanged(http.topic)
               /\ Topics' = [Topics EXCEPT ![http.name] = 0]
               /\ http'.resp = "deleted"]_vars

\* C17 witness: a topic with a subscriber has been deleted while another
\* topic, created before it, holds a message in its history
C17_Witness ==
    \E t \in 1..Len(topic) : \E u \in 1..(t - 1) :
        /\ delLog[t].done
        /\ delLog[t].subs # {}
        /\ \E n \in AllNames : Topics[n] = u
        /\ topic[u].Messages # <<>>

\* what a request naming an unregistered topic must get: the TOPIC_NOT_FOUND
\* envelope with the request's request_id, and no change to any topic,
\* subscriber, queue or delivery loop
NotFoundAnswer(c, msg) ==
    /\ sess'[c].resp = [code |-> "TOPIC_NOT_FOUND", rid |-> msg.RequestID]
    /\ sess'[c].pc = "read"
    /\ UNCHANGED <<topicVars, subVars, msgVars, sinkLog>>

\* C18: a subscribe, unsubscribe or publish request with valid fields whose
\* topic is not in the registry is answered with a TOPIC_NOT_FOUND envelope
\* carrying the request's request_id; no topic, subscribers map, history or
\* queue changes and no delivery loop is started.
C18_UnknownTopicIsNotFound ==
    [][\A c \in Conns :
        /\ \A msg \in SubscribeRequests :
              /\ msg.Topic # Empty /\ msg.ClientID # Empty /\ Topics[msg.Topic] = 0
              /\ handleSubscribe(c, msg)
              => NotFoundAnswer(c, msg)
        /\ \A msg \in UnsubscribeRequests :
              /\ msg.Topic # Empty /\ msg.ClientID # Empty /\ Topics[msg.Topic] = 0
              /\ handleUnsubscribe(c, msg)
              => NotFoundAnswer(c, msg)
        /\ \A msg \in PublishRequests :
              /\ msg.Topic # Empty /\ ~msg.Message.nil /\ Topics[msg.Topic] = 0
              /\ msg.Message.ID = "" \/ ParseUUID(msg.Message.ID)
              /\ handlePublish(c, msg)
              => NotFoundAnswer(c, msg)]_vars

\* a request with a request_id was answered TOPIC_NOT_FOUND while a registered
\* topic had a subscriber and a message in its history
C18_Witness ==
    \E c \in Conns :
        /\ sess[c].resp = [code |-> "TOPIC_NOT_FOUND", rid |-> 1]
        /\ \E t \in 1..Len(topic) :
              /\ topic[t].Messages # <<>>
              /\ Range(topic[t].Subscribers) # {}

\* the id message m was admitted with: the client's, or the one the server
\* assigned when the client gave none
AdmittedID(m) == IF pubLog[m].ID = "" THEN message[m].ID ELSE pubLog[m].ID

\* a publish whose message.id is present but is no UUID is answered
\* BAD_REQUEST, is not appended to any history and is enqueued nowhere
C19_InvalidIdRejected ==
    [][\A c \in Conns : \A msg \in PublishRequests :
          /\ msg.Topic # Empty /\ ~msg.Message.nil
          /\ msg.Message.ID # "" /\ ~ParseUUID(msg.Message.ID)
          /\ handlePublish(c, msg)
          => /\ sess'[c].resp = [code |-> "BAD_REQUEST", rid |-> msg.RequestID]
             /\ sess'[c].pc = "read"
             /\ UNCHANGED <<topicVars, subVars, msgVars, sinkLog>>]_vars

\* a message published without an id has a valid server-assigned UUID, and
\* every delivered event carries the id its message was admitted with
C19_IdRoundTrip ==
    /\ \A m \in 1..nMsgs :
          pubLog[m].ID = "" => message[m].ID # "" /\ ParseUUID(message[m].ID)
    /\ \A c \in Conns : \A i \in 1..Len(sinkLog[c]) :
          sinkLog[c][i].type = "event" => sinkLog[c][i].ID = AdmittedID(sinkLog[c][i].msg)

\* every delivered event carries the payload its message was published with
C19_PayloadRoundTrip ==
    \A c \in Conns : \A i \in 1..Len(sinkLog[c]) :
        sinkLog[c][i].type = "event"
        => sinkLog[c][i].Payload = pubLog[sinkLog[c][i].msg].Payload

\* C19: a publish whose message.id is present but not a valid UUID is answered
\* BAD_REQUEST and neither appends to history nor enqueues to any subscriber; a
\* publish with no id gets a server-assigned valid UUID; every message
\* delivered to a subscriber, live or replay, carries exactly the id and the
\* payload that were admitted at publish.
C19_PublishIdAndPayload ==
    /\ C19_InvalidIdRejected
    /\ [](C19_IdRoundTrip /\ C19_PayloadRoundTrip)

\* C20: a subscribe on a topic whose subscribers map already holds
\* MAX_SUBSCRIBERS_PER_TOPIC entries is rejected with an INTERNAL error
\* envelope; the map is unchanged, no delivery loop is started for the rejected
\* subscriber, and no ack or replay event is sent.
C20_SubscribeAtCapacityRejected ==
    [][\A c \in Conns :
          /\ sess[c].pc = "subAdd"
          /\ MapLen(topic[sess[c].topic].Subscribers) >= MaxSubscribers
          /\ SubscribeAdd(c)
          => /\ sess'[c].resp = [code |-> "INTERNAL", rid |-> sess[c].rid]
             /\ sess'[c].pc = "read"
             /\ UNCHANGED <<topic, sub, proc, enqLog, sinkLog>>]_vars

\* a subscribe was rejected with INTERNAL: its connection has received nothing
\* and runs no delivery loop, and the topic still holds its full map
C20_Witness ==
    \E c \in Conns :
        /\ sess[c].resp.code = "INTERNAL"
        /\ sess[c].pc = "read"
        /\ sinkLog[c] = <<>>
        /\ \A s \in 1..Len(sub) : sub[s].Conn # c
        /\ \E t \in 1..Len(topic) : MapLen(topic[t].Subscribers) = MaxSubscribers

\* C21: an unsubscribe for a client_id that is not, or no longer, in the
\* subscribers map of an existing topic changes nothing (no queue closed, no
\* sink closed, no map entry removed) and is answered with an ack.
C21_UnsubscribeIdempotent ==
    [][\A c \in Conns :
          /\ /\ sess[c].pc = "unsubRemove"
             /\ topic[sess[c].topic].Subscribers[sess[c].cid] = 0
             /\ RemoveSubscriber(c)
             => /\ sess'[c].pc = "unsubAck"
                /\ sess'[c].rid = sess[c].rid
                /\ UNCHANGED <<topicVars, subVars, conn, msgVars, sinkLog, panics>>
          /\ /\ sess[c].pc = "unsubAck"
             /\ ~conn[c].closed
             /\ UnsubscribeAck(c)
             => /\ sess'[c].resp = [code |-> "ack", rid |-> sess[c].rid]
                /\ sess'[c].pc = "read"
                /\ UNCHANGED <<topicVars, subVars, conn, msgVars, sinkLog, panics>>]_vars

\* a second unsubscribe of a client_id found no entry, the first having closed
\* the subscriber's queue, and is about to be acknowledged on an open connection
C21_Witness ==
    \E c \in Conns :
        /\ sess[c].pc = "unsubAck"
        /\ sess[c].sub = 0
        /\ ~conn[c].closed
        /\ \E s \in 1..Len(sub) :
              /\ sub[s].ID = sess[c].cid
              /\ sub[s].closed
              /\ topic[sess[c].topic].Subscribers[sub[s].ID] = 0

\* C22: once the SLOW_CONSUMER error of a subscriber has been written to its
\* sink, no event envelope of that subscriber is written to that sink.
C22_SlowConsumerTerminal ==
    \A c \in Conns : \A i, j \in 1..Len(sinkLog[c]) :
        ~ /\ i < j
          /\ sinkLog[c][i].type = "SLOW_CONSUMER"
          /\ sinkLog[c][j].type = "event"
          /\ sinkLog[c][j].sub = sinkLog[c][i].sub

\* subscriber s has been terminated on its own account: a publish found its
\* queue full, or an unsubscribe closed its queue
Terminated(s) == subLog[s].evicted \/ sub[s].closed

\* inside Broadcast
Broadcasting(c) == sess[c].pc \in {"pubSend", "pubSlowWrite", "pubSlowClose"}

\* every subscriber that was not itself terminated has its sink open and its
\* delivery loop running
C23_PeersUnaffected ==
    \A s \in 1..Len(sub) :
        ~Terminated(s) => ~conn[sub[s].Conn].closed /\ proc[s].phase # "exited"

\* no step closes the connection of a session that is inside Broadcast
C23_PublisherUnaffected ==
    [][\A c \in Conns :
          Broadcasting(c) /\ ~conn[c].closed => ~conn'[c].closed]_vars

\* C23: while no client disconnects, terminating one subscriber (eviction,
\* delivery write failure, unsubscribe) never closes the sink of, or stops
\* delivery to, another subscriber and never ends the publisher's session,
\* on whichever connections they are.
C23_TerminationIsLocal ==
    /\ []C23_PeersUnaffected
    /\ C23_PublisherUnaffected

\* the same with every subscriber and publisher on a connection of its own
OwnConnections ==
    /\ \A s, r \in 1..Len(sub) : s # r => sub[s].Conn # sub[r].Conn
    /\ \A c \in Conns : Broadcasting(c) => \A s \in 1..Len(sub) : sub[s].Conn # c

\* the elements of a sequence
Elems(q) == {q[i] : i \in 1..Len(q)}

\* C24: a message published on topic T is appended only to T's history and
\* enqueued only on queues of subscribers registered on T, and every event a
\* subscriber receives, live or replay, names the topic it subscribed to and
\* carries a message published on that topic.
C24_NoCrossTopicLeak ==
    /\ \A t \in 1..Len(topic) : \A m \in Elems(appendLog[t]) \cup Elems(topic[t].Messages) :
          pubLog[m].topic = t
    /\ \A s \in 1..Len(sub) : \A m \in Elems(enqLog[s]) \cup Elems(sub[s].Queue) :
          pubLog[m].topic = subLog[s].topic
    /\ \A c \in Conns : \A i \in 1..Len(sinkLog[c]) :
          LET e == sinkLog[c][i]
          IN  e.type = "event"
              => /\ e.Topic = topic[subLog[e.sub].topic].Name
                 /\ pubLog[e.msg].topic = subLog[e.sub].topic

\* both topics have a message in their history; a subscriber of one received
\* its message live and a subscriber of the other received its message as replay
C24_Witness ==
    /\ \A t \in 1..TopicsTopics : t <= Len(topic) /\ topic[t].Messages # <<>>
    /\ \E s, r \in 1..Len(sub) :
          /\ subLog[s].topic # subLog[r].topic
          /\ Events(sub[s].Conn, s, TRUE) # <<>>
          /\ Events(sub[r].Conn, r, FALSE) # <<>>

\* C25: the topic count and the subscriber count one GetHealth call returns
\* are the registry size and the sum of the subscribers-map sizes as they stood
\* at one instant during the call.
C25_HealthIsOneInstant ==
    [][http.pc = "health" /\ http'.pc = "idle"
          => /\ http'.out.topics = MapLen(Topics)
             /\ http'.out.subscribers \in http.seen]_vars

\* the entries of the registry's subscribers maps
Subscriptions ==
    {<<n, k>> \in AllNames \X AllClients :
        Topics[n] # 0 /\ topic[Topics[n]].Subscribers[k] # 0}

\* C26: a GetStats call made with no operation in progress returns an entry
\* for exactly the topics in the registry, with messages = the history length
\* and subscribers = the subscribers-map size; a GetHealth call returns
\* topics = the registry size and subscribers = the sum of the map sizes;
\* neither call changes any state.
C26_QuiescentCounts ==
    [][/\ http.pc = "stats" /\ http'.pc = "idle"
          => http'.out.stats =
                [n \in AllNames |->
                    IF Topics[n] = 0
                    THEN [present |-> FALSE, messages |-> 0, subscribers |-> 0]
                    ELSE [present |-> TRUE,
                          messages |-> Len(topic[Topics[n]].Messages),
                          subscribers |->
                              Cardinality({k \in AllClients :
                                             topic[Topics[n]].Subscribers[k] # 0})]]
       /\ http.pc = "health" /\ http'.pc = "idle"
          => /\ http'.out.topics = Cardinality({n \in AllNames : Topics[n] # 0})
             /\ http'.out.subscribers = Cardinality(Subscriptions)
       /\ Counting \/ Counting'
          => UNCHANGED <<Topics, psMu, topic, sub, proc, conn, sess, nMsgs, message,
                         pubLog, sinkLog, appendLog, enqLog, subLog, delLog, panics>>]_vars

\* GetStats has returned, for a registry from which a topic had been deleted,
\* one entry: a topic with a full history and a subscriber
C26_Witness ==
    /\ http.resp = "stats"
    /\ http.pc = "idle"
    /\ \E t \in 1..Len(topic) : delLog[t].done
    /\ \E n \in AllNames :
          /\ http.out.stats[n].messages = TopicHistorySize
          /\ http.out.stats[n].subscribers = 1
          /\ \A k \in AllNames \ {n} : ~http.out.stats[k].present

\* the tasks that are inside a WriteJSON on connection c: no lock is taken
\* before the call, and the task's next step is the call's return. A session's
\* handler writes its acks and replay events, a publisher (a handler inside
\* Broadcast) the SLOW_CONSUMER error, a delivery loop its events, the
\* heartbeat its info messages
Writers(c) ==
    {<<"handler", k>> : k \in {k \in Conns :
        \/ k = c /\ sess[k].pc \in {"subAck", "subReplay", "pubAck", "unsubAck"}
        \/ sess[k].pc = "pubSlowWrite" /\ sub[sess[k].cur].Conn = c}}
    \cup {<<"loop", s>> : s \in {s \in 1..Len(sub) :
                                    proc[s].phase = "write" /\ sub[s].Conn = c}}
    \cup {<<"heartbeat", k>> : k \in {k \in Conns : k = c /\ conn[k].hb = "write"}}

\* C27: at no time are two tasks inside a write on the same open sink.
C27_SinkWritesExclusive ==
    \A c \in Conns : ~conn[c].closed => Cardinality(Writers(c)) <= 1

\* C28: once the sink of a subscriber has been closed, no task calls WriteJSON
\* on it for that subscriber: not the delivery loop, not a publish with the
\* SLOW_CONSUMER error, not the replay.
C28_NoWriteAfterClose ==
    [][\A s \in 1..Len(sub) :
          conn[sub[s].Conn].closed
          => /\ ~ProcWrite(s)
             /\ \A k \in Conns :
                   /\ ~(sess[k].pc = "pubSlowWrite" /\ sess[k].cur = s
                           /\ BroadcastSlowWrite(k))
                   /\ ~(sess[k].pc = "subReplay" /\ sess[k].sub = s
                           /\ SubscribeReplay(k))]_vars

\* a delivery loop stops only when it observes its queue closed, when the
\* session's context is cancelled, or when its sink write fails
C29_TerminatesForCause ==
    [][\A s \in 1..Len(sub) :
          proc[s].phase # "exited" /\ proc'[s].phase = "exited"
          => \/ proc[s].phase = "select" /\ sub[s].closed /\ sub[s].Queue = <<>>
             \/ proc[s].phase = "select" /\ conn[sub[s].Conn].ctxDone
             \/ proc[s].phase = "write" /\ conn[sub[s].Conn].closed]_vars

\* a subscriber whose delivery loop has stopped has its sink closed and is not
\* in its topic's subscribers map
C29_TerminatedIsRemoved ==
    \A s \in 1..Len(sub) :
        proc[s].phase = "exited"
        => /\ conn[sub[s].Conn].closed
           /\ topic[subLog[s].topic].Subscribers[sub[s].ID] # s

\* C29: a delivery loop terminates when its queue is observed closed, when the
\* session's context is cancelled, or when a sink write fails; after it has
\* terminated the subscriber's sink is closed and the subscriber is no longer
\* in its topic's subscribers map.
C29_DeliveryLoopTermination ==
    /\ C29_TerminatesForCause
    /\ []C29_TerminatedIsRemoved

\* the heartbeat of session c and every delivery loop it started have stopped
AllStopped(c) ==
    /\ conn[c].hb = "stopped"
    /\ \A s \in 1..Len(sub) : sub[s].Conn = c => proc[s].phase = "exited"

\* C30: when a session's transport read fails, its context is cancelled and,
\* the scheduler being fair to them, its heartbeat and every delivery loop it
\* started eventually stop, and stay stopped.
C30_SessionEndStopsTasks ==
    /\ [](\A c \in Conns : sess[c].pc = "closed" => conn[c].ctxDone)
    /\ \A c \in Conns : (sess[c].pc = "closed") ~> AllStopped(c)
    /\ [][\A c \in Conns :
             sess[c].pc = "closed" /\ AllStopped(c) => AllStopped(c)']_vars

\* a session that had a subscriber with a message in delivery and a heartbeat
\* written has ended, and its heartbeat and its delivery loop have stopped
C30_Witness ==
    \E c \in Conns :
        /\ sess[c].pc = "closed"
        /\ AllStopped(c)
        /\ Heartbeats(c) > 0
        /\ \E s \in 1..Len(sub) : sub[s].Conn = c /\ enqLog[s] # <<>>

\* C31: no queue is closed twice: no task executes close(sub.Queue) on a queue
\* that an unsubscribe or a topic deletion has already closed.
C31_QueueClosedAtMostOnce ==
    \A i \in 1..Len(panics) : panics[i].what # "close of closed channel"

\* session c is inside a request: its handler is about to take a topic's Mu or
\* to write its answer
InRequest(c) == sess[c].pc \notin {"read", "closed"}

\* C32: with a scheduler that starves no runnable goroutine, ps.Mu is always
\* released again, so that whoever waits for it acquires it; every management
\* request that holds it (delete, list, stats, health) returns; and every
\* handler that is inside a publish, subscribe or unsubscribe, each step of
\* which takes a topic's Mu, gets through it: in particular a delete and a
\* publish on the same topic both come to their end.
C32_NoLockDeadlock ==
    /\ psMu ~> ~psMu
    /\ (http.pc # "idle") ~> (http.pc = "idle")
    /\ \A c \in Conns : InRequest(c) ~> ~InRequest(c)

\* DeleteTopic has returned while a publish that had resolved the deleted topic
\* was in progress, and the publish has taken the topic's Mu since (AddMessage,
\* Broadcast) and is about to write its ack
C32_Witness ==
    \E c \in Conns :
        /\ sess[c].pc = "pubAck"
        /\ delLog[sess[c].topic].done
        /\ ~psMu
        /\ http.pc = "idle"

\* the next step of the handler of session c is a critical section of a
\* topic's Mu: AddMessage, the snapshot of Broadcast, AddSubscriber,
\* RemoveSubscriber, GetLastMessages
TakesTopicMu(c) == sess[c].pc \in {"pubAdd", "pubSnap", "subAdd", "unsubRemove", "subGet"}

\* C33: a step in which a task holds a topic's Mu writes to no sink and sends
\* on no queue, and every step that writes to a sink or enqueues or tries to
\* enqueue on a queue is taken with no topic's Mu held and leaves the topics
\* alone: the fan-out takes its snapshot in one step and does its try-sends and
\* SLOW_CONSUMER writes in later ones.
C33_NoSinkOrQueueUnderTopicMu ==
    [][/\ \A c \in Conns :
             TakesTopicMu(c) /\ sess'[c] # sess[c]
             => /\ sinkLog' = sinkLog
                /\ \A s \in 1..Len(sub) :
                      enqLog'[s] = enqLog[s] /\ sub'[s].Queue = sub[s].Queue
                /\ sess'[c].pc \notin {"pubSlowWrite", "pubSlowClose"}
       /\ \/ sinkLog' # sinkLog
          \/ \E s \in 1..Len(sub) : enqLog'[s] # enqLog[s]
          \/ \E c \in Conns : sess[c].pc = "pubSend" /\ sess'[c] # sess[c]
          => /\ topic' = topic
             /\ \A c \in Conns : sess'[c] # sess[c] => ~TakesTopicMu(c)]_vars

\* a fan-out, after its snapshot of two subscribers, has enqueued its message
\* on one and written SLOW_CONSUMER to the other
C33_Witness ==
    \E c \in Conns :
        /\ sess[c].pc = "pubSlowClose"
        /\ \E i \in 1..Len(sinkLog[sub[sess[c].cur].Conn]) :
              sinkLog[sub[sess[c].cur].Conn][i] = SlowConsumerMsg(sess[c].cur)
        /\ \E s \in sess[c].seen \ {sess[c].cur} :
              \E i \in 1..Len(enqLog[s]) : enqLog[s][i] = sess[c].msg

\* C34: a topic's subscribers map is read and written only under the topic's
\* Mu, so that while one task iterates over it no other task inserts into it
\* or deletes from it: the iteration of DeleteTopic, which spans several steps,
\* excludes AddSubscriber and RemoveSubscriber on the topic it deletes.
C34_SubscribersUnderTopicMu ==
    [][\A t \in 1..Len(topic) :
          http.pc = "delete" /\ http.topic = t
          => topic'[t].Subscribers = topic[t].Subscribers]_vars

\* the names in the registry
Registered == {n \in AllNames : Topics[n] # 0}

\* creates run one at a time under ps.Mu, in whatever order the callers get
\* the lock: each create of a name not in the registry, while there is room,
\* succeeds and adds that name and nothing else
C35_DistinctNamesAllSucceed ==
    [][\A name \in AllNames :
          (name \notin Registered /\ MapLen(Topics) < MaxTopics /\ NewTopic(name))
             => /\ http'.resp = "created"
                /\ Registered' = Registered \cup {name}
                /\ \A n \in Registered : Topics'[n] = Topics[n]]_vars

\* of the creates of one new name, the one that got the lock first has just
\* installed the topic; the next one to get the lock is answered "topic
\* already exists" and changes nothing
C35_SameNameOneSucceeds ==
    [][\A name \in AllNames :
          (http.resp = "created" /\ Topics[name] = Len(topic) /\ NewTopic(name))
             => /\ http'.resp = "topic already exists"
                /\ UNCHANGED <<Topics, topic>>]_vars

\* C35: concurrent creates are atomic: creates of pairwise distinct new names
\* with room for all of them all succeed and the registry then holds the
\* previous topics plus those names; of several creates of the same new name
\* exactly one succeeds and the others get "topic already exists".
C35_ConcurrentCreatesAtomic ==
    /\ C35_DistinctNamesAllSucceed
    /\ C35_SameNameOneSucceeds

\* C36: once a DeleteTopic and a subscribe that had resolved the deleted topic
\* have both returned, the subscriber, if the subscribe registered it and it
\* is still in the deleted topic's map, has been terminated: its queue and its
\* sink are closed.
C36_NoLiveSubscriberOnDeletedTopic ==
    \A s \in 1..Len(sub) :
        LET t == subLog[s].topic
        IN  /\ delLog[t].done
            /\ subLog[s].done
            /\ topic[t].Subscribers[sub[s].ID] = s
            => sub[s].closed /\ conn[sub[s].Conn].closed

\* C37: on every sink, every event envelope of a subscription, replayed or
\* live, is preceded by the ack envelope of its subscribe.
C37_AckPrecedesEvents ==
    \A c \in Conns : \A j \in 1..Len(sinkLog[c]) :
        sinkLog[c][j].type = "event"
        => \E i \in 1..(j - 1) : sinkLog[c][i] = AckMsg(sinkLog[c][j].sub)

\* C38: every subscriber whose delivery loop is running on a queue that has
\* not been closed is the subscriber stored under its client_id in its topic's
\* map, so that per topic and client_id there is at most one such subscriber.
C38_OneLoopPerClientId ==
    \A s \in 1..Len(sub) :
        proc[s].phase # "exited" /\ ~sub[s].closed
        => topic[subLog[s].topic].Subscribers[sub[s].ID] = s

\* C39: the removal a returning delivery loop requests affects only its own
\* subscriber: it deletes no map entry that holds another subscriber and
\* closes no other subscriber's queue.
C39_LoopRemovesOnlyItself ==
    [][\A s \in 1..Len(sub) :
          proc[s].phase = "exited" /\ proc'[s].phase = "gone"
          => /\ \A r \in 1..Len(sub) : r # s => sub'[r] = sub[r]
             /\ \A t \in 1..Len(topic) : \A k \in AllClients :
                   topic'[t].Subscribers[k] # topic[t].Subscribers[k]
                   => topic[t].Subscribers[k] = s]_vars

\* when the ack of an unsubscribe that found a subscriber is written, that
\* subscriber's queue is closed and the subscriber is not in the topic's map
C40_AckedIsRemoved ==
    [][\A c \in Conns :
          sess[c].pc = "unsubAck" /\ sess[c].sub # 0 /\ UnsubscribeAck(c)
          => /\ sub[sess[c].sub].closed
             /\ sess[c].sub \notin Range(topic[sess[c].topic].Subscribers)]_vars

\* a subscriber that was in the topic's map when the publish of m0 started and
\* was no longer in it when the later publish of m started is neither enqueued
\* nor delivered m
C40_NothingAfterRemoval ==
    \A m0, m \in 1..Len(pubLog) : \A s \in 1..Len(sub) :
        /\ m0 < m
        /\ pubLog[m0].topic = pubLog[m].topic
        /\ s \in pubLog[m0].before \ pubLog[m].before
        => /\ Count(enqLog[s], m) = 0
           /\ Count(sub[s].Queue, m) = 0
           /\ Count(Events(sub[s].Conn, s, TRUE), m) = 0

\* C40: an acked unsubscribe has taken its subscriber out of the topic's map
\* and closed its queue, and no message whose publish on the topic starts after
\* that is enqueued on, or delivered to, the removed subscriber (a later
\* subscribe of the client registers a new subscriber).
C40_NoDeliveryAfterUnsubscribe ==
    /\ C40_AckedIsRemoved
    /\ []C40_NothingAfterRemoval

\* a subscriber received a message, was unsubscribed and acked, and a publish
\* that started after that has been acked without reaching it
C40_Witness ==
    \E m0, m \in 1..Len(pubLog) : \E s \in 1..Len(sub) :
        /\ m0 < m
        /\ s \in pubLog[m0].before \ pubLog[m].before
        /\ Count(enqLog[s], m0) = 1
        /\ pubLog[m].acked
        /\ sub[s].closed
        /\ \A c \in Conns : sess[c].pc \in {"read", "closed"}

\* C9: on every sink, all replay events of a subscription precede every live
\* event (written by the delivery loop) of that subscription.
C9_ReplayPrecedesLive ==
    \A c \in Conns : \A i, j \in 1..Len(sinkLog[c]) :
        ~ /\ i < j
          /\ sinkLog[c][i].type = "event" /\ sinkLog[c][i].live
          /\ sinkLog[c][j].type = "event" /\ ~sinkLog[c][j].live
          /\ sinkLog[c][i].sub = sinkLog[c][j].sub

\* C10: GetLastMessages(h, n) is the min(n, |h|) most recent entries of h in
\* history order when n > 0 and all of h when n <= 0 or n > |h|; a subscribe
\* with last_n = k passes exactly the last min(k, |history when read|)
\* messages to its sink as events, oldest first (all of them arrive when the
\* sink stays open), and none when k <= 0.
C10_ReplayIsLastN ==
    /\ \A t \in 1..Len(topic) : \A n \in LastNs :
         LET h == topic[t].Messages
             want == IF n > 0 THEN Min(n, Len(h)) ELSE Len(h)
         IN  GetLastMessages(h, n) = LastK(h, want)
    /\ \A s \in 1..Len(sub) :
         LET r == subLog[s]
             want == IF r.lastN > 0 /\ r.got
                     THEN LastK(r.hist, Min(r.lastN, Len(r.hist))) ELSE <<>>
             arrived == Events(sub[s].Conn, s, FALSE)
         IN  /\ r.lastN <= 0 => ~r.got
             /\ IsPrefix(r.sent, want)
             /\ IsPrefix(arrived, r.sent)
             /\ r.done => r.sent = want
             /\ r.done /\ ~conn[sub[s].Conn].closed => arrived = want

\* C10 witness: a finished subscribe with 0 < last_n < |history| whose replay
\* arrived: the most recent message only
C10_Witness ==
    \E s \in 1..Len(sub) :
        /\ subLog[s].done
        /\ subLog[s].lastN = 1
        /\ Len(subLog[s].hist) = 2
        /\ Events(sub[s].Conn, s, FALSE) = <<subLog[s].hist[2]>>

====
